---- MODULE Spec2Model ----
(***************************************************************************)
(* Write path of the columnar storage: StorageBuilder / Storage ::init,    *)
(* the chunk generators, StorageInserter (enqueue_row, flush,              *)
(* append_stripe, drop) and InsertionManager (create_inserter,             *)
(* finish_inserting), sharing one Storage behind a read/write lock.        *)
(*                                                                         *)
(* Bytes are naturals 0..255.  Numeric elements are kept as their          *)
(* in-memory bytes on a little-endian host (get_slice_bytes reinterprets   *)
(* the Vec<N> as bytes), so that i64::MIN needs no 64-bit integer.         *)
(***************************************************************************)
EXTENDS Integers, Sequences, FiniteSets, TLC

\* ------------------------------------------------------------------ bounds
MaxColumns == 2
MaxInserters == 2
MaxRows == 3
MaxIoFailures == 1
\* the single-handle runs: one Inserter, schemas of at most MaxColumnsSingle
\* columns, long enough to fill a stripe of a schema without numeric columns
MaxColumnsSingle == 1
MaxRowsSingle == 9
\* num_rows_in_stripe_hint uses 4096 * 64 bytes per stripe; the model scales
\* the two factors down so that a stripe fills within MaxRows rows.
\* the generator on its own: at most MaxValues values between two resets
MaxValues == 3
\* the TableWriter: blocks of at most MaxBlockSize rows, at most MaxTableRows
\* rows, at most MaxTableColumns column generators
MaxBlockSize == 3
MaxTableRows == 4
MaxTableColumns == 1
\* the runs over every datatype: one Inserter, at most MaxRowsSchema rows
MaxRowsSchema == 2
\* the StorageChunk on its own: slices of at most MaxElements elements
MaxElements == 2
\* sessions in sequence: at most MaxReopenings sessions after the first
MaxReopenings == 1
disk_block_size == 4
blocks_in_stripe == 2

\* ------------------------------------------------------------ sequences
RECURSIVE SeqSum(_)
SeqSum(s) == IF s = <<>> THEN 0 ELSE Head(s) + SeqSum(Tail(s))

RECURSIVE Flatten(_)
Flatten(ss) == IF ss = <<>> THEN <<>> ELSE Head(ss) \o Flatten(Tail(ss))

RECURSIVE Zeros(_)
Zeros(n) == IF n = 0 THEN <<>> ELSE <<0>> \o Zeros(n - 1)

Max(S) == CHOOSE x \in S : \A y \in S : y <= x

Min(S) == CHOOSE x \in S : \A y \in S : x <= y

\* ------------------------------------------------------------ datatypes
ColumnDatatype(kind, len) == [kind |-> kind, len |-> len]

DT_Byte == ColumnDatatype("Byte", 0)

DT_Int32 == ColumnDatatype("Int32", 0)

DT_Int64 == ColumnDatatype("Int64", 0)

DT_Float == ColumnDatatype("Float", 0)

DT_FixedLength(s) == ColumnDatatype("FixedLength", s)

DT_VariableLength == ColumnDatatype("VariableLength", 0)

DatatypeInfo_new(datatype) ==
    CASE datatype.kind = "Byte" -> [is_numeric |-> TRUE, is_fixed_size |-> TRUE, value_size |-> 1]
      [] datatype.kind = "Int32" -> [is_numeric |-> TRUE, is_fixed_size |-> TRUE, value_size |-> 4]
      [] datatype.kind = "Int64" -> [is_numeric |-> TRUE, is_fixed_size |-> TRUE, value_size |-> 8]
      [] datatype.kind = "Float" -> [is_numeric |-> TRUE, is_fixed_size |-> TRUE, value_size |-> 4]
      [] datatype.kind = "FixedLength" ->
            [is_numeric |-> FALSE, is_fixed_size |-> TRUE, value_size |-> datatype.len]
      [] datatype.kind = "VariableLength" ->
            [is_numeric |-> FALSE, is_fixed_size |-> FALSE, value_size |-> 0]

\* --------------------------------------------------------- column values
ColumnValue(tag, num, bytes) == [tag |-> tag, num |-> num, bytes |-> bytes]

CV_Null == ColumnValue("Null", 0, <<>>)

CV_Byte(v) == ColumnValue("Byte", v, <<>>)

CV_Int32(v) == ColumnValue("Int32", v, <<>>)

CV_Int64(v) == ColumnValue("Int64", v, <<>>)

CV_Float(v) == ColumnValue("Float", v, <<>>)

CV_FixedLength(b) == ColumnValue("FixedLength", 0, b)

CV_VariableLength(b) == ColumnValue("VariableLength", 0, b)

\* ---------------------------------------------------------------- errors
StorageResult(kind, a, b) == [kind |-> kind, a |-> a, b |-> b]

Ok == StorageResult("Ok", 0, 0)

NoResult == StorageResult("none", 0, 0)

InvalidFormat == StorageResult("InvalidFormat", 0, 0)

IoError == StorageResult("IoError", 0, 0)

InvalidNumberOfColumns(got, expected) == StorageResult("InvalidNumberOfColumns", got, expected)

TypeError == StorageResult("TypeError", 0, 0)

InvalidLength(got, expected) == StorageResult("InvalidLength", got, expected)

FileAlreadyExists == StorageResult("FileAlreadyExists", 0, 0)

InvalidPath == StorageResult("InvalidPath", 0, 0)

\* ---------------------------------------------------------- NumericValue
\* N is one of "i8", "i32", "i64", "f32".
NumericValue_variant(N) ==
    CASE N = "i8" -> "Byte" [] N = "i32" -> "Int32" [] N = "i64" -> "Int64" [] N = "f32" -> "Float"

size_of(N) == CASE N = "i8" -> 1 [] N = "i32" -> 4 [] N = "i64" -> 8 [] N = "f32" -> 4

\* Option<Self>: [some |-> BOOLEAN, v |-> number]
extract_value_exact(N, value) ==
    IF value.tag = NumericValue_variant(N)
    THEN [some |-> TRUE, v |-> value.num]
    ELSE [some |-> FALSE, v |-> 0]

\* a null value of zero
null_value_zero(N) == Zeros(size_of(N))

\* i8::MIN, i32::MIN, i64::MIN, f32::NEG_INFINITY (0xFF800000) as in-memory bytes
null_value(N) ==
    IF N = "f32" THEN <<0, 0, 128, 255>> ELSE Zeros(size_of(N) - 1) \o <<128>>

\* StorageResult<Option<Self>>
extract_value_or_null(N, value) ==
    IF value.tag = "Null"
    THEN [res |-> Ok, some |-> FALSE, v |-> 0]
    ELSE LET e == extract_value_exact(N, value)
         IN IF e.some THEN [res |-> Ok, some |-> TRUE, v |-> e.v]
                      ELSE [res |-> TypeError, some |-> FALSE, v |-> 0]

\* two's complement little-endian bytes of v in w bytes (\div floors)
RECURSIVE le_bytes(_, _)
le_bytes(v, w) == IF w = 0 THEN <<>> ELSE <<v % 256>> \o le_bytes(v \div 256, w - 1)

\* the bytes get_slice_bytes sees for a slice of elements kept as bytes
get_slice_bytes(s) == Flatten(s)

\* ------------------------------------------------------- chunk generators
\* One record shape for the three generators; a generator uses the fields of
\* its own struct and leaves the others empty.
\*   NumericChunkGenerator<N>     : values (elements of N, each as its bytes)
\*   FixedLengthChunkGenerator    : value_size, nulls, values, encoded_chunk_buffer
\*   VariableLengthChunkGenerator : sizes, values, encoded_chunk_buffer
ChunkGenerator(kind, N, value_size) ==
    [kind |-> kind, N |-> N, value_size |-> value_size, nulls |-> <<>>, sizes |-> <<>>,
     values |-> <<>>, encoded_chunk_buffer |-> <<>>]

\* no generator built yet
NoGenerator == ChunkGenerator("none", "", 0)

NumericChunkGenerator_new(N) == ChunkGenerator("Numeric", N, 0)

FixedLengthChunkGenerator_new(value_size) == ChunkGenerator("FixedLength", "", value_size)

VariableLengthChunkGenerator_new == ChunkGenerator("VariableLength", "", 0)

\* a generator that takes any variant for a numeric column
NumericChunkGenerator_validate_value_any_variant(gen, value) == Ok

NumericChunkGenerator_validate_value(gen, value) == extract_value_or_null(gen.N, value).res

\* a length check that lets shorter values through
FixedLengthChunkGenerator_validate_value_up_to_size(gen, value) ==
    CASE value.tag = "Null" -> Ok
      [] value.tag = "FixedLength" ->
            IF Len(value.bytes) <= gen.value_size
            THEN Ok
            ELSE InvalidLength(Len(value.bytes), gen.value_size)
      [] OTHER -> TypeError

FixedLengthChunkGenerator_validate_value(gen, value) ==
    CASE value.tag = "Null" -> Ok
      [] value.tag = "FixedLength" ->
            IF Len(value.bytes) = gen.value_size
            THEN Ok
            ELSE InvalidLength(Len(value.bytes), gen.value_size)
      [] OTHER -> TypeError

VariableLengthChunkGenerator_validate_value(gen, value) ==
    CASE value.tag = "Null" -> Ok
      [] value.tag = "VariableLength" -> Ok
      [] OTHER -> TypeError

validate_value(gen, value) ==
    CASE gen.kind = "Numeric" -> NumericChunkGenerator_validate_value(gen, value)
      [] gen.kind = "FixedLength" -> FixedLengthChunkGenerator_validate_value(gen, value)
      [] gen.kind = "VariableLength" -> VariableLengthChunkGenerator_validate_value(gen, value)

\* one turn of the `while let Some(value) = values.next()` loops
NumericChunkGenerator_append(gen, value) ==
    LET e == extract_value_or_null(gen.N, value)
        v == IF e.some THEN le_bytes(e.v, size_of(gen.N)) ELSE null_value(gen.N)
    IN [gen EXCEPT !.values = Append(@, v)]

FixedLengthChunkGenerator_append(gen, value) ==
    IF value.tag = "Null"
    THEN [gen EXCEPT !.nulls = Append(@, TRUE)]
    ELSE [gen EXCEPT !.nulls = Append(@, FALSE), !.values = @ \o value.bytes]

\* `as i32` on a usize below 2^32: lengths above i32::MAX wrap to n - 2^32
as_i32(n) == IF n > 2147483647 THEN ((n - 2147483647) - 2147483647) - 2 ELSE n

\* an append that records a Null as a value of no bytes
VariableLengthChunkGenerator_append_null_as_empty(gen, value) ==
    [gen EXCEPT !.sizes = Append(@, as_i32(Len(value.bytes))), !.values = @ \o value.bytes]

VariableLengthChunkGenerator_append(gen, value) ==
    IF value.tag = "Null"
    THEN [gen EXCEPT !.sizes = Append(@, -1)]
    ELSE [gen EXCEPT !.sizes = Append(@, as_i32(Len(value.bytes))), !.values = @ \o value.bytes]

append_value(gen, value) ==
    CASE gen.kind = "Numeric" -> NumericChunkGenerator_append(gen, value)
      [] gen.kind = "FixedLength" -> FixedLengthChunkGenerator_append(gen, value)
      [] gen.kind = "VariableLength" -> VariableLengthChunkGenerator_append(gen, value)

\* Precondition: validate_value(gen, v) = Ok for every v of values
RECURSIVE append_values(_, _)
append_values(gen, values) ==
    IF values = <<>> THEN gen ELSE append_values(append_value(gen, Head(values)), Tail(values))

\* null flags packed eight to a byte
nulls_as_bytes_packed(nulls) == [k \in 1..((Len(nulls) + 7) \div 8) |-> 0]

\* get_encoded_chunk takes &mut self: the two buffered generators rebuild their
\* scratch buffer, the numeric one returns its values' bytes.
nulls_as_bytes(nulls) == [k \in 1..Len(nulls) |-> IF nulls[k] THEN 1 ELSE 0]

sizes_as_bytes(sizes) == get_slice_bytes([k \in 1..Len(sizes) |-> le_bytes(sizes[k], 4)])

\* a get_encoded_chunk that writes after what the scratch buffer already holds
get_encoded_chunk_gen_without_clear(gen) ==
    CASE gen.kind = "Numeric" -> gen
      [] gen.kind = "FixedLength" ->
            [gen EXCEPT !.encoded_chunk_buffer = @ \o nulls_as_bytes(gen.nulls) \o gen.values]
      [] gen.kind = "VariableLength" ->
            [gen EXCEPT !.encoded_chunk_buffer = @ \o sizes_as_bytes(gen.sizes) \o gen.values]

\* encoded_chunk_buffer.clear(), then the flags or sizes, then the values
get_encoded_chunk_gen(gen) ==
    CASE gen.kind = "Numeric" -> gen
      [] gen.kind = "FixedLength" ->
            [gen EXCEPT !.encoded_chunk_buffer = nulls_as_bytes(gen.nulls) \o gen.values]
      [] gen.kind = "VariableLength" ->
            [gen EXCEPT !.encoded_chunk_buffer = sizes_as_bytes(gen.sizes) \o gen.values]

\* the EncodedChunk(Encoding::Raw, bytes) borrowed from a generator on which
\* get_encoded_chunk has just run
EncodedChunk(gen) ==
    [encoding |-> "Raw",
     bytes |-> IF gen.kind = "Numeric" THEN get_slice_bytes(gen.values)
               ELSE gen.encoded_chunk_buffer]

reset(gen) == [gen EXCEPT !.nulls = <<>>, !.sizes = <<>>, !.values = <<>>]

\* ---------------------------------------------------------------- backend
\* A seekable byte store (Cursor<Vec<u8>> or File): its bytes and its cursor.
Cursor_new == [bytes |-> <<>>, pos |-> 0]

\* Write::write at the cursor: overwrites what lies under it, extends past the end
backend_write(b, data) ==
    LET end == b.pos + Len(data)
        n == IF end > Len(b.bytes) THEN end ELSE Len(b.bytes)
    IN [bytes |-> [k \in 1..n |-> IF k > b.pos /\ k <= end THEN data[k - b.pos] ELSE b.bytes[k]],
        pos |-> end]

\* Seek::seek(SeekFrom::Current(0))
backend_current_offset(b) == b.pos

\* Seek::seek(SeekFrom::End(0))
backend_seek_end(b) == [b EXCEPT !.pos = Len(b.bytes)]

\* ---------------------------------------------------------------- Storage
NoStorage == [exists |-> FALSE, num_rows |-> 0, columns |-> <<>>, stripes |-> <<>>]

\* the value of *cnt after `*cnt += 1` for the i-th builder column
name_count(columns, i) == Cardinality({j \in 1..i : columns[j].name = columns[i].name})

\* a check that lets a name through twice
has_duplicated_name_thrice(columns) == \E i \in 1..Len(columns) : name_count(columns, i) > 2

\* `if *cnt > 1 { return Err(InvalidFormat) }` is taken for some column
has_duplicated_name(columns) == \E i \in 1..Len(columns) : name_count(columns, i) > 1

\* Storage::init: the Storage built from the builder's columns, or InvalidFormat.
\* It takes the backend and writes nothing to it.
Storage_init(columns) ==
    IF has_duplicated_name(columns)
    THEN [res |-> InvalidFormat, storage |-> NoStorage]
    ELSE [res |-> Ok,
          storage |-> [exists |-> TRUE,
                       num_rows |-> 0,
                       columns |-> [i \in 1..Len(columns) |->
                                      [name |-> columns[i].name,
                                       datatype |-> columns[i].datatype,
                                       datatype_info |-> DatatypeInfo_new(columns[i].datatype),
                                       num_column |-> i - 1]],
                       stripes |-> <<>>]]

num_columns(st) == Len(st.columns)

\* `&self.columns[idx]`, idx counted from 0 (panics past the end)
column(st, idx) == st.columns[idx + 1]

NoColumn == [name |-> "", datatype |-> ColumnDatatype("", 0),
             datatype_info |-> [is_numeric |-> FALSE, is_fixed_size |-> FALSE, value_size |-> 0],
             num_column |-> 0]

\* a lookup that answers with the first column whatever the name
column_by_name_first_column(st, name) ==
    IF Len(st.columns) = 0 THEN [some |-> FALSE, v |-> NoColumn]
    ELSE [some |-> TRUE, v |-> st.columns[1]]

\* `self.columns.iter().find(|c| c.name == name)`: Option<&Column>
column_by_name(st, name) ==
    LET found == {i \in 1..Len(st.columns) : st.columns[i].name = name}
    IN IF found = {} THEN [some |-> FALSE, v |-> NoColumn]
       ELSE [some |-> TRUE, v |-> st.columns[Min(found)]]

Column_name(c) == c.name

num_column_in_storage(c) == c.num_column

\* a directory update that puts the new entry first
Storage_append_stripe_at_front(st, stripe) ==
    [st EXCEPT !.stripes = <<stripe>> \o @, !.num_rows = @ + stripe.num_rows]

\* a directory update that forgets the row count
Storage_append_stripe_without_rows(st, stripe) == [st EXCEPT !.stripes = Append(@, stripe)]

\* the recording half of append_stripe: push the directory entry, add the rows
Storage_append_stripe(st, stripe) ==
    [st EXCEPT !.stripes = Append(@, stripe), !.num_rows = @ + stripe.num_rows]

\* The 3-byte signature "SCS" and Storage::write_footer (seek to the end, write
\* the signature) are called by finish_inserting; their bodies come from the
\* format description, the I/O outcome is the caller's choice of `fails`.
SIGNATURE == <<83, 67, 83>>

Storage_write_footer(b, fails) ==
    IF fails
    THEN [res |-> IoError, backend |-> backend_seek_end(b)]
    ELSE [res |-> Ok, backend |-> backend_write(backend_seek_end(b), SIGNATURE)]

\* --------------------------------------------------------- StorageInserter
\* a max_size taken over every column of the schema
max_size_any_column(st) ==
    LET sizes == {st.columns[c].datatype_info.value_size : c \in 1..Len(st.columns)} \ {0}
    IN IF sizes = {} THEN 1 ELSE Max(sizes)

\* the largest value_size among the numeric columns, 1 when there is none
max_size(st) ==
    LET sizes == {st.columns[c].datatype_info.value_size :
                     c \in {d \in 1..Len(st.columns) : st.columns[d].datatype_info.is_numeric}}
    IN IF sizes = {} THEN 1 ELSE Max(sizes)

num_rows_in_stripe_hint(st) == (blocks_in_stripe * disk_block_size) \div max_size(st)

get_chunk_generator_for_datatype(datatype) ==
    CASE datatype.kind = "Byte" -> NumericChunkGenerator_new("i8")
      [] datatype.kind = "Int32" -> NumericChunkGenerator_new("i32")
      [] datatype.kind = "Int64" -> NumericChunkGenerator_new("i64")
      [] datatype.kind = "Float" -> NumericChunkGenerator_new("f32")
      [] datatype.kind = "FixedLength" -> FixedLengthChunkGenerator_new(datatype.len)
      [] datatype.kind = "VariableLength" -> VariableLengthChunkGenerator_new

\* state is the handle's position: "none" (not created), "idle" (between
\* calls), "waiting" (in flush, before storage.write()), "writing" (in flush,
\* holding the write guard), "dropped".  cause is the caller of the running
\* flush: "enqueue" or "drop".
NoInserter ==
    [state |-> "none", cause |-> "", enqueued_rows |-> <<>>, chunk_generators |-> <<>>,
     max_rows_in_stripe |-> 0]

StorageInserter_new(st) ==
    [state |-> "idle", cause |-> "", enqueued_rows |-> <<>>,
     chunk_generators |-> [c \in 1..Len(st.columns) |->
                              get_chunk_generator_for_datatype(st.columns[c].datatype)],
     max_rows_in_stripe |-> num_rows_in_stripe_hint(st)]

\* an arity check that only rejects longer rows
arity_mismatch_only_longer(got, expected) == got > expected

\* `if got != expected`
arity_mismatch(got, expected) == got # expected

\* a validation loop that reports the last failing value
validate_row_last_error(gens, row) ==
    LET n == IF Len(gens) < Len(row) THEN Len(gens) ELSE Len(row)
        failing == {c \in 1..n : validate_value(gens[c], row[c]) # Ok}
    IN IF failing = {} THEN Ok ELSE validate_value(gens[Max(failing)], row[Max(failing)])

\* the validation loop over zip(chunk_generators, row): the error of the first
\* value that fails, Ok when none does
RECURSIVE validate_from(_, _, _)
validate_from(gens, row, c) ==
    IF c > Len(gens) \/ c > Len(row) THEN Ok
    ELSE LET r == validate_value(gens[c], row[c])
         IN IF r # Ok THEN r ELSE validate_from(gens, row, c + 1)

validate_row(gens, row) == validate_from(gens, row, 1)

\* a fullness test that fires one row late
stripe_is_full_one_late(ins) == Len(ins.enqueued_rows) = ins.max_rows_in_stripe + 1

\* `if self.enqueued_rows.len() == self.max_rows_in_stripe`
stripe_is_full(ins) == Len(ins.enqueued_rows) = ins.max_rows_in_stripe

\* flush, up to `self.storage.write()`: every generator takes its column of
\* the enqueued rows
flush_append_values(ins) ==
    [ins EXCEPT !.chunk_generators =
        [c \in 1..Len(@) |->
            append_values(@[c], [k \in 1..Len(ins.enqueued_rows) |-> ins.enqueued_rows[k][c]])]]

\* ---------------------------------------------------------- stripe header
chunk_header(relative_offset, chunk) ==
    [relative_offset |-> relative_offset, compressed_size |-> Len(chunk.bytes),
     uncompressed_size |-> Len(chunk.bytes), encoding |-> chunk.encoding, compression |-> "None"]

\* a relative_column_begin that is advanced before the header entry is pushed
relative_column_begin_advanced_first(stripe, c) ==
    SeqSum([k \in 1..c |-> Len(stripe[k].bytes)])

\* relative_column_begin before chunk c: the compressed sizes of chunks 1..c-1
relative_column_begin(stripe, c) == SeqSum([k \in 1..(c - 1) |-> Len(stripe[k].bytes)])

StripeHeader(num_rows, stripe) ==
    [num_rows |-> num_rows,
     column_chunks |-> [c \in 1..Len(stripe) |-> chunk_header(relative_column_begin(stripe, c), stripe[c])],
     stripe_size |-> SeqSum([k \in 1..Len(stripe) |-> Len(stripe[k].bytes)])]

Encoding_code(e) == CASE e = "Raw" -> 0 [] e = "Delta" -> 1 [] e = "RLE" -> 2

Compression_code(c) == CASE c = "None" -> 0 [] c = "Snappy" -> 1

\* The framed message of a StripeHeader.  The framing is the serializer's; here
\* every field of build_message takes one cell, the chunk list being preceded
\* by its length.
build_message(h) ==
    <<h.num_rows, h.stripe_size, Len(h.column_chunks)>> \o
    Flatten([c \in 1..Len(h.column_chunks) |->
        <<h.column_chunks[c].relative_offset, h.column_chunks[c].compressed_size,
          h.column_chunks[c].uncompressed_size, Encoding_code(h.column_chunks[c].encoding),
          Compression_code(h.column_chunks[c].compression)>>])

\* the backend after the first n chunks of the stripe have been written
RECURSIVE write_chunks(_, _, _)
write_chunks(b, stripe, n) ==
    IF n = 0 THEN b ELSE backend_write(write_chunks(b, stripe, n - 1), stripe[n].bytes)

\* an append_stripe that records the stripe before it writes
StorageInserter_append_stripe_recording_first(st, b, num_rows, stripe, fail_at) ==
    IF Len(stripe) = 0 THEN [res |-> Ok, storage |-> st, backend |-> b]
    ELSE LET recorded == Storage_append_stripe(st,
                            [absolute_offset |-> backend_current_offset(b),
                             num_rows |-> num_rows])
         IN IF fail_at = 0 THEN [res |-> IoError, storage |-> recorded, backend |-> b]
            ELSE [res |-> IF fail_at > 0 THEN IoError ELSE Ok,
                  storage |-> recorded,
                  backend |-> write_chunks(backend_write(b, build_message(StripeHeader(num_rows, stripe))),
                                           stripe,
                                           IF fail_at > 0 THEN fail_at - 1 ELSE Len(stripe))]

\* an append_stripe that asks for the backend's offset after the header's write
StorageInserter_append_stripe_offset_after_header(st, b, num_rows, stripe, fail_at) ==
    IF Len(stripe) = 0 THEN [res |-> Ok, storage |-> st, backend |-> b]
    ELSE IF fail_at = 0 THEN [res |-> IoError, storage |-> st, backend |-> b]
    ELSE IF fail_at > 0
         THEN [res |-> IoError, storage |-> st,
               backend |-> write_chunks(backend_write(b, build_message(StripeHeader(num_rows, stripe))),
                                        stripe, fail_at - 1)]
         ELSE [res |-> Ok,
               storage |-> Storage_append_stripe(st,
                             [absolute_offset |->
                                 backend_current_offset(
                                    backend_write(b, build_message(StripeHeader(num_rows, stripe)))),
                              num_rows |-> num_rows]),
               backend |-> write_chunks(backend_write(b, build_message(StripeHeader(num_rows, stripe))),
                                        stripe, Len(stripe))]

\* an append_stripe that writes and records a stripe without chunks as well
StorageInserter_append_stripe_without_skip(st, b, num_rows, stripe, fail_at) ==
    IF fail_at = 0 THEN [res |-> IoError, storage |-> st, backend |-> b]
    ELSE IF fail_at > 0
         THEN [res |-> IoError, storage |-> st,
               backend |-> write_chunks(backend_write(b, build_message(StripeHeader(num_rows, stripe))),
                                        stripe, fail_at - 1)]
         ELSE [res |-> Ok,
               storage |-> Storage_append_stripe(st,
                             [absolute_offset |-> backend_current_offset(b), num_rows |-> num_rows]),
               backend |-> write_chunks(backend_write(b, build_message(StripeHeader(num_rows, stripe))),
                                        stripe, Len(stripe))]

\* StorageInserter::append_stripe.  fail_at is the write that returns an I/O
\* error: 0 the header, c the c-th chunk, -1 none.  Bytes written before the
\* failing write stay in the backend.
StorageInserter_append_stripe(st, b, num_rows, stripe, fail_at) ==
    IF Len(stripe) = 0 THEN [res |-> Ok, storage |-> st, backend |-> b]
    ELSE LET stripe_header_absolute_offset == backend_current_offset(b)
             header == StripeHeader(num_rows, stripe)
         IN IF fail_at = 0 THEN [res |-> IoError, storage |-> st, backend |-> b]
            ELSE LET b1 == backend_write(b, build_message(header))
                 IN IF fail_at > 0
                    THEN [res |-> IoError, storage |-> st,
                          backend |-> write_chunks(b1, stripe, fail_at - 1)]
                    ELSE [res |-> Ok,
                          storage |-> Storage_append_stripe(st,
                                        [absolute_offset |-> stripe_header_absolute_offset,
                                         num_rows |-> num_rows]),
                          backend |-> write_chunks(b1, stripe, Len(stripe))]

\* an enqueue_row that leaves every flush to drop
enqueue_row_without_flush(ins, expected, row) ==
    IF arity_mismatch(Len(row), expected)
    THEN [res |-> InvalidNumberOfColumns(Len(row), expected), ins |-> ins, flush |-> FALSE]
    ELSE IF validate_row(ins.chunk_generators, row) # Ok
         THEN [res |-> validate_row(ins.chunk_generators, row), ins |-> ins, flush |-> FALSE]
         ELSE [res |-> Ok, ins |-> [ins EXCEPT !.enqueued_rows = Append(@, row)], flush |-> FALSE]

\* StorageInserter::enqueue_row up to its call of flush: the result, the
\* handle afterwards, and whether flush is entered
enqueue_row(ins, expected, row) ==
    LET got == Len(row)
        verdict == validate_row(ins.chunk_generators, row)
        pushed_ins == [ins EXCEPT !.enqueued_rows = Append(@, row)]
    IN IF arity_mismatch(got, expected)
       THEN [res |-> InvalidNumberOfColumns(got, expected), ins |-> ins, flush |-> FALSE]
       ELSE IF verdict # Ok
            THEN [res |-> verdict, ins |-> ins, flush |-> FALSE]
            ELSE [res |-> Ok, ins |-> pushed_ins, flush |-> stripe_is_full(pushed_ins)]

\* a flush that never finds rows to write
flush_is_noop_always(ins) == TRUE

\* a flush that goes on with an empty buffer
flush_is_noop_never(ins) == FALSE

\* flush returns at once on an empty buffer
flush_is_noop(ins) == Len(ins.enqueued_rows) = 0

\* the encoded stripe collected under the write guard
generators_encoded(ins) ==
    [c \in 1..Len(ins.chunk_generators) |-> get_encoded_chunk_gen(ins.chunk_generators[c])]

encoded_stripe(ins) ==
    [c \in 1..Len(ins.chunk_generators) |->
        EncodedChunk(get_encoded_chunk_gen(ins.chunk_generators[c]))]

\* the end of a successful flush: generators reset, buffer cleared
flush_done(ins) ==
    [ins EXCEPT !.chunk_generators = [c \in 1..Len(@) |-> reset(get_encoded_chunk_gen(@[c]))],
                !.enqueued_rows = <<>>]

\* ------------------------------------------------------------ file system
\* A path is absolute or relative and has its components; the empty path is
\* relative without components, "/" is absolute without components.
Path(absolute, comps) == [absolute |-> absolute, comps |-> comps]

\* The directories and the regular files, each by the components of its
\* absolute path, and the working directory.
FileSystem ==
    [dirs |-> {<<>>, <<"tmp">>}, files |-> {<<"tmp", "old.storage">>}, cwd |-> <<"tmp">>]

Path_is_empty(path) == ~path.absolute /\ path.comps = <<>>

\* where the path leads
Path_resolve(f, path) == IF path.absolute THEN path.comps ELSE f.cwd \o path.comps

\* Path::is_dir: metadata succeeds and says directory
Path_is_dir(f, path) == ~Path_is_empty(path) /\ Path_resolve(f, path) \in f.dirs

\* an exists that never finds anything
Path_exists_never(f, path) == FALSE

\* Path::exists: metadata succeeds (it fails for the empty path)
Path_exists(f, path) ==
    ~Path_is_empty(path) /\ Path_resolve(f, path) \in (f.dirs \cup f.files)

\* Path::parent: None for the empty path and for the root, else the path
\* without its last component ("" for a single relative component)
Path_parent(path) ==
    IF path.comps = <<>>
    THEN [some |-> FALSE, v |-> path]
    ELSE [some |-> TRUE, v |-> Path(path.absolute, SubSeq(path.comps, 1, Len(path.comps) - 1))]

\* File::create: a new empty file (an existing one is truncated) when the
\* directory that is to hold it exists, an io::Error otherwise
File_create(f, path) ==
    LET target == Path_resolve(f, path)
    IN IF /\ target # <<>>
          /\ target \notin f.dirs
          /\ SubSeq(target, 1, Len(target) - 1) \in f.dirs
       THEN [res |-> Ok, fs |-> [f EXCEPT !.files = @ \cup {target}]]
       ELSE [res |-> IoError, fs |-> f]

\* StorageBuilder::at: the checks on the path, File::create, Storage::init
StorageBuilder_at(f, columns, path) ==
    IF Path_is_dir(f, path) THEN [res |-> InvalidPath, storage |-> NoStorage, fs |-> f]
    ELSE IF Path_exists(f, path) THEN [res |-> FileAlreadyExists, storage |-> NoStorage, fs |-> f]
    ELSE IF ~Path_parent(path).some THEN [res |-> InvalidPath, storage |-> NoStorage, fs |-> f]
    ELSE IF ~Path_exists(f, Path_parent(path).v)
         THEN [res |-> InvalidPath, storage |-> NoStorage, fs |-> f]
    ELSE LET file == File_create(f, path)
         IN IF file.res # Ok THEN [res |-> IoError, storage |-> NoStorage, fs |-> file.fs]
            ELSE [res |-> Storage_init(columns).res,
                  storage |-> Storage_init(columns).storage,
                  fs |-> file.fs]

\* -------------------------------------------------------------- NullsBitmap
MaxBits == 9

RECURSIVE Pow2(_)
Pow2(n) == IF n = 0 THEN 1 ELSE 2 * Pow2(n - 1)

\* bit k of a byte, counted from the least significant
BitSet(byte, k) == (byte \div Pow2(k)) % 2 = 1

\* `a << n` and `a | b` on u8
shl_u8(a, n) == (a * Pow2(n)) % 256

bitor_u8(a, b) ==
    SeqSum([k \in 1..8 |-> IF BitSet(a, k - 1) \/ BitSet(b, k - 1) THEN Pow2(k - 1) ELSE 0])

NullsBitmap_new == [packed_bits |-> <<>>, num_values |-> 0]

\* a reset that forgets the count and keeps the bytes
NullsBitmap_reset_keeping_bits(bm) == [bm EXCEPT !.num_values = 0]

\* packed_bits.truncate(0); num_values = 0
NullsBitmap_reset(bm) == [packed_bits |-> SubSeq(bm.packed_bits, 1, 0), num_values |-> 0]

\* an append that fills each byte from its most significant bit
NullsBitmap_append_msb_first(bm, has_value) ==
    LET bit_offset == bm.num_values % 8
        with_byte == IF bit_offset = 0 THEN Append(bm.packed_bits, 0) ELSE bm.packed_bits
    IN [packed_bits |-> IF has_value
                        THEN [with_byte EXCEPT ![Len(with_byte)] =
                                 bitor_u8(@, shl_u8(1, 7 - bit_offset))]
                        ELSE with_byte,
        num_values |-> bm.num_values + 1]

\* a new byte every eighth value; `*last_byte |= 1 << bit_offset` for a value
NullsBitmap_append(bm, has_value) ==
    LET bit_offset == bm.num_values % 8
        with_byte == IF bit_offset = 0 THEN Append(bm.packed_bits, 0) ELSE bm.packed_bits
        last_byte_offset == Len(with_byte)
    IN [packed_bits |-> IF has_value
                        THEN [with_byte EXCEPT ![last_byte_offset] =
                                 bitor_u8(@, shl_u8(1, bit_offset))]
                        ELSE with_byte,
        num_values |-> bm.num_values + 1]

NullsBitmap_append_null(bm) == NullsBitmap_append(bm, FALSE)

NullsBitmap_append_not_null(bm) == NullsBitmap_append(bm, TRUE)

NullsBitmap_get_raw_bits(bm) == bm.packed_bits

NullsBitmap_len(bm) == bm.num_values

\* ------------------------------------------------------------ TableWriter
\* column_writer.rs: rows of Value go to NativeColumnGenerator<i32>s, a block
\* of block_size rows is written as one chunk per column, finalize writes the
\* last block and the footer.
Value(tag, num) == [tag |-> tag, num |-> num]

Value_Null == Value("Null", 0)

Value_Int(i) == Value("Int", i)

Value_Float(f) == Value("Float", f)

HEADER == <<83, 78, 69, 76>>

\* most significant byte first
RECURSIVE be_bytes(_, _)
be_bytes(v, w) == IF w = 0 THEN <<>> ELSE be_bytes(v \div 256, w - 1) \o <<v % 256>>

\* bincode's encode_into: a usize as 8 bytes, an enum as the 4 bytes of its
\* variant's index, None as one zero byte, a Vec as its length and its items
encode_usize(v) == be_bytes(v, 8)

encode_variant(index) == be_bytes(index, 4)

\* Encoder::Flat on a slice of elements kept as bytes, and on a slice of bytes
Encoder_encode(elements) == get_slice_bytes(elements)

\* a compressor that runs snappy whatever its variant
Compressor_compress_snappy_only(compressor, buffer) ==
    IF buffer = <<>> THEN <<0>> ELSE <<Len(buffer), (Len(buffer) - 1) * 4>> \o buffer

\* Compressor::compress.  Raw copies the buffer.  Snappy is snappy::compress of
\* a buffer too short to hold a copy: the length, then the buffer as one literal
Compressor_compress(compressor, buffer) ==
    CASE compressor = "Raw" -> buffer
      [] compressor = "Snappy" ->
            IF buffer = <<>> THEN <<0>> ELSE <<Len(buffer), (Len(buffer) - 1) * 4>> \o buffer

\* EncodedCompressedBuffer::from with Encoder::Flat (Encoder::RLE is
\* unimplemented!()); data is a slice of elements kept as bytes
EncodedCompressedBuffer_from(encoder, compressor, data) ==
    [encoder |-> encoder,
     compressor |-> compressor,
     uncompressed_size |-> Len(data),
     compressed_data |-> Compressor_compress(compressor, Encoder_encode(data))]

\* StorageChunk::get_total_compressed_size
get_total_compressed_size(ch) ==
    Len(ch.compressed_nulls_bitmap.compressed_data) + Len(ch.compressed_values.compressed_data)

encode_ChunkHeader(h) ==
    encode_variant(h.nulls_encoder) \o encode_variant(h.nulls_compressor)
        \o encode_usize(h.nulls_size)
        \o encode_variant(h.values_encoder) \o encode_variant(h.values_compressor)
        \o encode_usize(h.values_size)

encode_ChunkMetadata(c) == <<0>> \o encode_usize(c.offset_in_file)

encode_BlockMetadata(b) ==
    encode_usize(b.num_rows_in_block) \o encode_usize(Len(b.chunks))
        \o Flatten([k \in 1..Len(b.chunks) |-> encode_ChunkMetadata(b.chunks[k])])

encode_TableMetadata(md) ==
    encode_usize(md.num_rows) \o encode_usize(Len(md.blocks))
        \o Flatten([k \in 1..Len(md.blocks) |-> encode_BlockMetadata(md.blocks[k])])

TableMetadata_new == [num_rows |-> 0, blocks |-> <<>>]

NativeColumnGenerator_new == [nulls |-> NullsBitmap_new, values |-> <<>>]

\* Ok(g') or Err(InvalidTypeError); `i as i32` for the small values used here
NativeColumnGenerator_append_value(g, value) ==
    CASE value.tag = "Null" ->
            [ok |-> TRUE, g |-> [g EXCEPT !.nulls = NullsBitmap_append_null(@)]]
      [] value.tag = "Int" ->
            [ok |-> TRUE, g |-> [g EXCEPT !.nulls = NullsBitmap_append_not_null(@),
                                          !.values = Append(@, le_bytes(value.num, 4))]]
      [] OTHER -> [ok |-> FALSE, g |-> g]

NativeColumnGenerator_reset(g) == [nulls |-> NullsBitmap_reset(g.nulls), values |-> <<>>]

\* assert_eq!(nulls.len(), values.len()) in ChunkGenerator::generate_chunk
generate_chunk_panics(g) == NullsBitmap_len(g.nulls) # Len(g.values)

\* the StorageChunk of a generator: its two compressed buffers
generate_chunk(g) ==
    [compressed_nulls_bitmap |->
        Compressor_compress("Snappy", Encoder_encode(<<NullsBitmap_get_raw_bits(g.nulls)>>)),
     compressed_values |-> Compressor_compress("Snappy", Encoder_encode(g.values))]

NoStorageChunk ==
    [T |-> "", nulls |-> <<>>, values |-> <<>>,
     compressed_nulls_bitmap |-> EncodedCompressedBuffer_from("Flat", "Raw", <<>>),
     compressed_values |-> EncodedCompressedBuffer_from("Flat", "Raw", <<>>)]

NoTableWriter ==
    [state |-> "none", block_size |-> 0, column_generators |-> <<>>, writer |-> Cursor_new,
     num_rows |-> 0, num_rows_in_current_block |-> 0, table_metadata |-> TableMetadata_new]

TableWriter_write_signature(tw) == [tw EXCEPT !.writer = backend_write(@, HEADER)]

\* state is "open" once new_into has returned, "finalized" once finalize has
\* returned Ok, "panicked" after a panic
TableWriter_new_into(block_size, num_generators) ==
    TableWriter_write_signature(
        [state |-> "open", block_size |-> block_size,
         column_generators |-> [c \in 1..num_generators |-> NativeColumnGenerator_new],
         writer |-> Cursor_new, num_rows |-> 0, num_rows_in_current_block |-> 0,
         table_metadata |-> TableMetadata_new])

\* the writer and the chunks' metadata after the first n chunks are written
RECURSIVE write_block_chunks(_, _, _)
write_block_chunks(w, chunks, n) ==
    IF n = 0 THEN [writer |-> w, chunks_metadata |-> <<>>]
    ELSE LET before == write_block_chunks(w, chunks, n - 1)
             \* Encoder::Flat is variant 0, Compressor::Snappy variant 1
             block_chunk_header == [nulls_encoder |-> 0,
                              nulls_compressor |-> 1,
                              nulls_size |-> Len(chunks[n].compressed_nulls_bitmap),
                              values_encoder |-> 0,
                              values_compressor |-> 1,
                              values_size |-> Len(chunks[n].compressed_values)]
             current_offset == backend_current_offset(before.writer)
         IN [writer |-> backend_write(
                            backend_write(
                                backend_write(before.writer, encode_ChunkHeader(block_chunk_header)),
                                chunks[n].compressed_nulls_bitmap),
                            chunks[n].compressed_values),
             chunks_metadata |-> Append(before.chunks_metadata,
                                        [file |-> "None", offset_in_file |-> current_offset])]

\* a flush_block that pushes the block and keeps counting
TableWriter_flush_block_keeping_count(tw) ==
    IF tw.num_rows_in_current_block = 0 THEN tw
    ELSE [tw EXCEPT !.table_metadata.blocks =
                        Append(@, [num_rows_in_block |-> tw.num_rows_in_current_block,
                                   chunks |-> <<>>])]

\* TableWriter::flush_block
TableWriter_flush_block(tw) ==
    IF tw.num_rows_in_current_block = 0 THEN tw
    ELSE IF \E c \in 1..Len(tw.column_generators) : generate_chunk_panics(tw.column_generators[c])
    THEN [tw EXCEPT !.state = "panicked"]
    ELSE LET chunks == [c \in 1..Len(tw.column_generators) |->
                           generate_chunk(tw.column_generators[c])]
             written == write_block_chunks(tw.writer, chunks, Len(chunks))
         IN [tw EXCEPT !.writer = written.writer,
                       !.table_metadata.blocks =
                           Append(@, [num_rows_in_block |-> tw.num_rows_in_current_block,
                                      chunks |-> written.chunks_metadata]),
                       !.num_rows_in_current_block = 0,
                       !.column_generators =
                           [c \in 1..Len(@) |-> NativeColumnGenerator_reset(@[c])]]

\* TableWriter::append_row: [ok, tw]; ok is FALSE for Err(InvalidRowError)
TableWriter_append_row(tw, row) ==
    IF Len(row) # Len(tw.column_generators) THEN [ok |-> FALSE, tw |-> tw]
    ELSE IF \E c \in 1..Len(row) :
               ~NativeColumnGenerator_append_value(tw.column_generators[c], row[c]).ok
    THEN [ok |-> FALSE, tw |-> [tw EXCEPT !.state = "panicked"]]
    ELSE LET fed_tw == [tw EXCEPT
                          !.column_generators =
                              [c \in 1..Len(@) |->
                                  NativeColumnGenerator_append_value(@[c], row[c]).g],
                          !.num_rows = @ + 1,
                          !.num_rows_in_current_block = @ + 1]
             flushed == IF fed_tw.num_rows % fed_tw.block_size = 0
                        THEN TableWriter_flush_block(fed_tw)
                        ELSE fed_tw
         IN [ok |-> flushed.state # "panicked", tw |-> flushed]

\* a footer without the closing signature
TableWriter_write_footer_without_signature(tw) ==
    [tw EXCEPT !.writer =
        backend_write(backend_write(@, encode_TableMetadata(tw.table_metadata)),
                      encode_usize(backend_current_offset(tw.writer)))]

\* TableWriter::write_footer: the metadata, the offset it starts at, the signature
TableWriter_write_footer(tw) ==
    LET current_offset == backend_current_offset(tw.writer)
    IN TableWriter_write_signature(
           [tw EXCEPT !.writer =
               backend_write(backend_write(@, encode_TableMetadata(tw.table_metadata)),
                             encode_usize(current_offset))])

\* TableWriter::finalize
TableWriter_finalize(tw) ==
    LET flushed == TableWriter_flush_block(tw)
    IN IF flushed.state = "panicked" THEN flushed
       ELSE [TableWriter_write_footer(flushed) EXCEPT !.state = "finalized"]

\* ------------------------------------------------------------ input sets
TableValues == {Value_Null, Value_Int(7), Value_Int(-2), Value_Float(1)}

\* rows of the writer's arity, and one row that is a value too long
TableRowsFor(n) == [1..n -> TableValues] \cup {[k \in 1..(n + 1) |-> Value_Int(7)]}

\* "", "/", "/tmp", two files that can be created in /tmp, the file that is
\* there, a path below directories that do not exist, a path below a regular
\* file, and a bare file name
Paths ==
    {Path(FALSE, <<>>), Path(TRUE, <<>>), Path(TRUE, <<"tmp">>),
     Path(TRUE, <<"tmp", "test.storage">>), Path(TRUE, <<"tmp", "other.storage">>),
     Path(TRUE, <<"tmp", "old.storage">>),
     Path(TRUE, <<"invalid", "path", "test.storage">>),
     Path(TRUE, <<"tmp", "old.storage", "x">>),
     Path(FALSE, <<"test.storage">>)}

Names == <<"a", "b">>

\* a new column repeats a name already given or takes the next unused one
NamesFor(columns) ==
    {Names[k] : k \in 1..(IF Len(columns) < Len(Names) THEN Len(columns) + 1 ELSE Len(Names))}

Datatypes == {DT_Int32, DT_FixedLength(2), DT_VariableLength}

Values ==
    {CV_Null, CV_Int32(7), CV_FixedLength(<<1, 2>>), CV_FixedLength(<<3>>), CV_VariableLength(<<5>>)}

\* Rows of the schema's arity hold Null in every cell or in none; the rows one
\* value short and one value long hold Null only.
RowsFor(n) ==
    {r \in [1..n -> Values] : (\A c \in 1..n : r[c] = CV_Null) \/ (\A c \in 1..n : r[c] # CV_Null)}
    \cup UNION {[1..k -> {CV_Null}] : k \in {m \in {n - 1, n + 1} : m >= 0}}

Inserters == 1..MaxInserters

\* the generators get_chunk_generator_for_datatype can build
GeneratorDatatypes ==
    {DT_Byte, DT_Int32, DT_Int64, DT_Float, DT_FixedLength(2), DT_VariableLength}

\* values for a generator on its own.  A Float carries the bit pattern of its
\* f32 (1065353216 = 0x3F800000 = 1.0).
GeneratorValues ==
    {CV_Null, CV_Byte(-3), CV_Int32(7), CV_Int64(-2), CV_Float(1065353216),
     CV_FixedLength(<<1, 2>>), CV_FixedLength(<<3, 4>>),
     CV_VariableLength(<<>>), CV_VariableLength(<<5>>), CV_VariableLength(<<6, 7>>)}

\* what one append_values call iterates over
GeneratorValueSeqs == UNION {[1..k -> GeneratorValues] : k \in 1..2}

\* element types and elements of the slices a StorageChunk is built from
ElementTypes == {"i8", "i32"}

ElementsOf(T) == IF T = "i8" THEN {1, -3} ELSE {4, -2, 70000}

SlicesOf(T) == UNION {[1..k -> ElementsOf(T)] : k \in 0..MaxElements}

\* ------------------------------------------------------------------ state
VARIABLES
    pc,           \* "building", "build_failed", "built", "inserting", "finished",
                  \* "finish_failed", "panicked"
    builder,      \* StorageBuilder.columns
    storage,      \* the Storage (behind the lock while inserting)
    backend,      \* Storage.backend
    lock,         \* the RwLock: writer is the Inserter holding the write guard, 0 for none
    inserters,    \* the StorageInserter handles
    io_failures,  \* backend writes that have returned an error
    last,         \* the call that made the last step, what it was given and returned
    pushed,       \* per Inserter, the number of rows enqueue_row has pushed to enqueued_rows
    accepted,     \* per Inserter, those rows in the order of their calls
    ok_rows,      \* the enqueue_row calls that have returned Ok
    owners,       \* per stripe directory entry, the Inserter that recorded it
    lock_order,   \* per acquisition of the write lock, who took it and whether its flush
                  \* recorded a stripe
    bitmap,       \* a NullsBitmap
    appended,     \* the flags appended to the bitmap since new() or reset()
    gen,          \* a chunk generator on its own
    fed,          \* the values appended to it since new() or reset()
    chunk,        \* the bytes of the EncodedChunk its last get_encoded_chunk returned
    fs,           \* the file system StorageBuilder::at works on
    table_writer, \* a TableWriter over a Cursor
    rows_appended, \* its append_row calls that have returned Ok
    storage_chunk, \* a StorageChunk built from two slices, and the slices
    reopened,      \* the insertion sessions begun on a Storage that a session handed back
    readers        \* the Inserters holding a read guard of the RwLock

vars ==
    <<pc, builder, storage, backend, lock, inserters, io_failures, last, pushed, accepted, ok_rows,
      owners, lock_order, bitmap, appended, gen, fed, chunk, fs, table_writer, rows_appended,
      storage_chunk, reopened, readers>>

\* op: the operation; got: the row's length (for a call on the bitmap, its
\* len() before the call); bad: the columns whose value
\* validate_value rejects; res: what the call returned (NoResult while it runs
\* or when it returns nothing)
Call(op, got, bad, res) == [op |-> op, got |-> got, bad |-> bad, res |-> res]

RECURSIVE SumPushed(_)
SumPushed(i) == IF i = 0 THEN 0 ELSE pushed[i] + SumPushed(i - 1)

TotalPushed == SumPushed(MaxInserters)

Alive(i) == inserters[i].state \notin {"none", "dropped"}

Init ==
    /\ pc = "building"
    /\ builder = <<>>
    /\ storage = NoStorage
    /\ backend = Cursor_new
    /\ lock = [writer |-> 0]
    /\ inserters = [i \in Inserters |-> NoInserter]
    /\ io_failures = 0
    /\ last = Call("new", 0, {}, NoResult)
    /\ pushed = [i \in Inserters |-> 0]
    /\ accepted = [i \in Inserters |-> <<>>]
    /\ ok_rows = 0
    /\ owners = <<>>
    /\ lock_order = <<>>
    /\ bitmap = NullsBitmap_new
    /\ appended = <<>>
    /\ gen = NoGenerator
    /\ fed = <<>>
    /\ chunk = <<>>
    /\ fs = FileSystem
    /\ table_writer = NoTableWriter
    /\ rows_appended = 0
    /\ storage_chunk = NoStorageChunk
    /\ reopened = 0
    /\ readers = {}

\* StorageBuilder::column
BuilderColumn(name, datatype) ==
    /\ pc = "building"
    /\ Len(builder) < MaxColumns
    /\ builder' = Append(builder, [name |-> name, datatype |-> datatype])
    /\ last' = Call("column", 0, {}, NoResult)
    /\ UNCHANGED <<readers, reopened, storage_chunk, pc, storage, backend, lock, inserters, io_failures, pushed, accepted, ok_rows, owners, lock_order, bitmap, appended, gen, fed, chunk, fs, table_writer, rows_appended>>

\* StorageBuilder::in_memory: a fresh Cursor, then Storage::init
BuildInMemory ==
    /\ pc = "building"
    /\ LET r == Storage_init(builder)
       IN /\ storage' = r.storage
          /\ pc' = IF r.res = Ok THEN "built" ELSE "build_failed"
          /\ last' = Call("in_memory", 0, {}, r.res)
    /\ backend' = Cursor_new
    /\ UNCHANGED <<readers, reopened, storage_chunk, builder, lock, inserters, io_failures, pushed, accepted, ok_rows, owners, lock_order, bitmap, appended, gen, fed, chunk, fs, table_writer, rows_appended>>

\* InsertionManager::new: the Storage goes behind Arc<RwLock<_>>
BeginInserting ==
    /\ pc = "built"
    /\ pc' = "inserting"
    /\ lock' = [writer |-> 0]
    /\ last' = Call("begin_inserting", 0, {}, NoResult)
    /\ UNCHANGED <<readers, reopened, storage_chunk, builder, storage, backend, inserters, io_failures, pushed, accepted, ok_rows, owners, lock_order, bitmap, appended, gen, fed, chunk, fs, table_writer, rows_appended>>

\* InsertionManager::create_inserter: StorageInserter::new reads the schema
\* under the read lock.  Creating a handle changes nothing but the handle, so
\* handles are numbered in the order of their first accepted row: the next one
\* is created once the ones before it have pushed a row.
CreateInserter(i) ==
    /\ pc = "inserting"
    /\ inserters[i].state = "none"
    /\ \A j \in 1..(i - 1) : pushed[j] > 0
    /\ lock.writer = 0
    /\ inserters' = [inserters EXCEPT ![i] = StorageInserter_new(storage)]
    /\ last' = Call("create_inserter", 0, {}, NoResult)
    /\ UNCHANGED <<readers, reopened, storage_chunk, pc, builder, storage, backend, lock, io_failures, pushed, accepted, ok_rows, owners, lock_order, bitmap, appended, gen, fed, chunk, fs, table_writer, rows_appended>>

\* StorageInserter::enqueue_row, up to flush's request of the write lock
EnqueueRowWithin(i, row, cap) ==
    /\ pc = "inserting"
    /\ inserters[i].state = "idle"
    /\ lock.writer = 0
    /\ TotalPushed < cap
    /\ \E r \in {enqueue_row(inserters[i], num_columns(storage), row)} :
       LET ins == inserters[i]
           bad == {c \in 1..Len(row) : c <= Len(ins.chunk_generators)
                                        /\ validate_value(ins.chunk_generators[c], row[c]) # Ok}
       IN /\ inserters' = [inserters EXCEPT ![i] =
                 IF r.flush
                 THEN [flush_append_values(r.ins) EXCEPT !.state = "waiting", !.cause = "enqueue"]
                 ELSE r.ins]
          /\ last' = Call("enqueue_row", Len(row), bad, IF r.flush THEN NoResult ELSE r.res)
          /\ pushed' = [pushed EXCEPT ![i] = @ + Len(r.ins.enqueued_rows) - Len(ins.enqueued_rows)]
          /\ accepted' = [accepted EXCEPT ![i] =
                IF Len(r.ins.enqueued_rows) > Len(ins.enqueued_rows) THEN Append(@, row) ELSE @]
          /\ ok_rows' = IF r.res = Ok /\ ~r.flush THEN ok_rows + 1 ELSE ok_rows
    /\ UNCHANGED <<readers, reopened, storage_chunk, pc, builder, storage, backend, lock, io_failures, owners, lock_order, bitmap, appended, gen, fed, chunk, fs, table_writer, rows_appended>>

EnqueueRow(i, row) == EnqueueRowWithin(i, row, MaxRows)

\* Drop for StorageInserter, up to flush's request of the write lock
Drop(i) ==
    /\ pc = "inserting"
    /\ inserters[i].state = "idle"
    /\ inserters' = [inserters EXCEPT ![i] =
          IF flush_is_noop(@)
          THEN [@ EXCEPT !.state = "dropped"]
          ELSE [flush_append_values(@) EXCEPT !.state = "waiting", !.cause = "drop"]]
    /\ last' = Call("drop", 0, {}, NoResult)
    /\ UNCHANGED <<readers, reopened, storage_chunk, pc, builder, storage, backend, lock, io_failures, pushed, accepted, ok_rows, owners, lock_order, bitmap, appended, gen, fed, chunk, fs, table_writer, rows_appended>>

\* flush: `self.storage.write()`
AcquireWrite(i) ==
    /\ pc = "inserting"
    /\ inserters[i].state = "waiting"
    /\ lock.writer = 0
    /\ lock' = [writer |-> i]
    /\ inserters' = [inserters EXCEPT ![i].state = "writing"]
    /\ lock_order' = Append(lock_order, [who |-> i, recorded |-> FALSE])
    /\ last' = Call("write_lock", 0, {}, NoResult)
    /\ UNCHANGED <<readers, reopened, storage_chunk, pc, builder, storage, backend, io_failures, pushed, accepted, ok_rows, owners, bitmap, appended, gen, fed, chunk, fs, table_writer, rows_appended>>

\* a flush that writes and records without having taken the write lock
FlushWrite_without_guard(i) ==
    /\ pc = "inserting"
    /\ inserters[i].state = "waiting"
    /\ \E r \in {StorageInserter_append_stripe(storage, backend, Len(inserters[i].enqueued_rows),
                                                encoded_stripe(inserters[i]), -1)} :
          /\ storage' = r.storage
          /\ backend' = r.backend
          /\ owners' = IF Len(r.storage.stripes) > Len(storage.stripes) THEN Append(owners, i)
                       ELSE owners
          /\ lock_order' = Append(lock_order,
                              [who |-> i, recorded |-> Len(r.storage.stripes) > Len(storage.stripes)])
          /\ inserters' = [inserters EXCEPT ![i] =
                [flush_done(@) EXCEPT !.state = IF inserters[i].cause = "drop" THEN "dropped"
                                                ELSE "idle",
                                      !.cause = ""]]
          /\ last' = Call("flush", 0, {}, IF inserters[i].cause = "drop" THEN NoResult ELSE Ok)
          /\ ok_rows' = IF inserters[i].cause = "enqueue" THEN ok_rows + 1 ELSE ok_rows
    /\ UNCHANGED <<readers, reopened, storage_chunk, pc, builder, lock, io_failures, pushed, accepted, bitmap, appended, gen, fed, chunk, fs, table_writer, rows_appended>>

\* a flush that returns with the write guard still out
FlushWrite_keeping_guard(i) ==
    /\ pc = "inserting"
    /\ inserters[i].state = "writing"
    /\ lock.writer = i
    /\ inserters' = [inserters EXCEPT ![i] =
          [flush_done(@) EXCEPT !.state = IF inserters[i].cause = "drop" THEN "dropped" ELSE "idle",
                                !.cause = ""]]
    /\ last' = Call("flush", 0, {}, IF inserters[i].cause = "drop" THEN NoResult ELSE Ok)
    /\ ok_rows' = IF inserters[i].cause = "enqueue" THEN ok_rows + 1 ELSE ok_rows
    /\ UNCHANGED <<readers, reopened, storage_chunk, pc, builder, storage, backend, lock, owners, lock_order, io_failures, pushed, accepted, bitmap, appended, gen, fed, chunk, fs, table_writer, rows_appended>>

\* flush under the write guard, every write succeeding: append_stripe, the
\* generators' reset, the guard's release, the buffer's clear, and the return
\* to enqueue_row's caller or the end of drop
FlushWrite(i) ==
    /\ pc = "inserting"
    /\ inserters[i].state = "writing"
    /\ lock.writer = i
    /\ \E r \in {StorageInserter_append_stripe(storage, backend, Len(inserters[i].enqueued_rows),
                                                encoded_stripe(inserters[i]), -1)} :
       LET ins == inserters[i]
       IN /\ storage' = r.storage
          /\ backend' = r.backend
          /\ owners' = IF Len(r.storage.stripes) > Len(storage.stripes) THEN Append(owners, i)
                       ELSE owners
          /\ lock_order' = [lock_order EXCEPT ![Len(lock_order)].recorded =
                               Len(r.storage.stripes) > Len(storage.stripes)]
          /\ inserters' = [inserters EXCEPT ![i] =
                [flush_done(ins) EXCEPT !.state = IF ins.cause = "drop" THEN "dropped" ELSE "idle",
                                        !.cause = ""]]
          /\ last' = Call("flush", 0, {}, IF ins.cause = "drop" THEN NoResult ELSE Ok)
          /\ ok_rows' = IF ins.cause = "enqueue" THEN ok_rows + 1 ELSE ok_rows
    /\ lock' = [writer |-> 0]
    /\ UNCHANGED <<readers, reopened, storage_chunk, pc, builder, io_failures, pushed, accepted, bitmap, appended, gen, fed, chunk, fs, table_writer, rows_appended>>

\* flush under the write guard, the header's write (fail_at = 0) or a chunk's
\* (fail_at = c) returning an I/O error: try! leaves flush, the guard is
\* released, generators and buffer stay as they are.  enqueue_row returns the
\* error; drop unwraps it and panics.
FlushWriteFails(i, fail_at) ==
    /\ pc = "inserting"
    /\ inserters[i].state = "writing"
    /\ lock.writer = i
    /\ io_failures < MaxIoFailures
    /\ fail_at \in 0..Len(inserters[i].chunk_generators)
    /\ Len(inserters[i].chunk_generators) > 0
    /\ \E r \in {StorageInserter_append_stripe(storage, backend, Len(inserters[i].enqueued_rows),
                                                encoded_stripe(inserters[i]), fail_at)} :
       LET ins == inserters[i]
       IN /\ storage' = r.storage
          /\ backend' = r.backend
          /\ inserters' = [inserters EXCEPT ![i] =
                [ins EXCEPT !.chunk_generators = generators_encoded(ins),
                            !.state = IF ins.cause = "drop" THEN "dropped" ELSE "idle",
                            !.cause = ""]]
          /\ pc' = IF ins.cause = "drop" THEN "panicked" ELSE pc
          /\ last' = Call("flush", 0, {}, r.res)
    /\ lock' = [writer |-> 0]
    /\ io_failures' = io_failures + 1
    /\ UNCHANGED <<readers, reopened, storage_chunk, builder, pushed, accepted, ok_rows, owners, lock_order, bitmap, appended, gen, fed, chunk, fs, table_writer, rows_appended>>

\* InsertionManager::finish_inserting with a handle still alive: Arc::try_unwrap
\* fails and expect panics
FinishInsertingPanics ==
    /\ pc = "inserting"
    /\ \E i \in Inserters : Alive(i)
    /\ pc' = "panicked"
    /\ last' = Call("finish_inserting", 0, {}, NoResult)
    /\ UNCHANGED <<readers, reopened, storage_chunk, builder, storage, backend, lock, inserters, io_failures, pushed, accepted, ok_rows, owners, lock_order, bitmap, appended, gen, fed, chunk, fs, table_writer, rows_appended>>

\* a finish_inserting that does not look for live handles
FinishInserting_with_live_handles ==
    /\ pc = "inserting"
    /\ backend' = backend_write(backend_seek_end(backend), SIGNATURE)
    /\ pc' = "finished"
    /\ last' = Call("finish_inserting", 0, {}, Ok)
    /\ UNCHANGED <<readers, reopened, storage_chunk, builder, storage, lock, inserters, io_failures, pushed, accepted, ok_rows, owners, lock_order, bitmap, appended, gen, fed, chunk, fs, table_writer, rows_appended>>

\* a finish_inserting that returns Ok without the footer
FinishInserting_without_footer ==
    /\ pc = "inserting"
    /\ \A i \in Inserters : ~Alive(i)
    /\ pc' = "finished"
    /\ last' = Call("finish_inserting", 0, {}, Ok)
    /\ UNCHANGED <<readers, reopened, storage_chunk, builder, storage, backend, lock, inserters, io_failures, pushed, accepted, ok_rows, owners, lock_order, bitmap, appended, gen, fed, chunk, fs, table_writer, rows_appended>>

\* InsertionManager::finish_inserting with every handle dropped: the Storage
\* is taken out of the lock and write_footer runs
FinishInserting ==
    /\ pc = "inserting"
    /\ \A i \in Inserters : ~Alive(i)
    /\ \E fails \in {FALSE} \cup (IF io_failures < MaxIoFailures THEN {TRUE} ELSE {}) :
          LET r == Storage_write_footer(backend, fails)
          IN /\ backend' = r.backend
             /\ pc' = IF r.res = Ok THEN "finished" ELSE "finish_failed"
             /\ last' = Call("finish_inserting", 0, {}, r.res)
             /\ io_failures' = IF fails THEN io_failures + 1 ELSE io_failures
    /\ UNCHANGED <<readers, reopened, storage_chunk, builder, storage, lock, inserters, pushed, accepted, ok_rows, owners, lock_order, bitmap, appended, gen, fed, chunk, fs, table_writer, rows_appended>>

Next ==
    \/ \E name \in NamesFor(builder), datatype \in Datatypes : BuilderColumn(name, datatype)
    \/ BuildInMemory
    \/ BeginInserting
    \/ \E i \in Inserters : CreateInserter(i)
    \/ \E i \in Inserters : \E row \in RowsFor(num_columns(storage)) : EnqueueRow(i, row)
    \/ \E i \in Inserters : Drop(i)
    \/ \E i \in Inserters : AcquireWrite(i)
    \/ \E i \in Inserters : FlushWrite(i)
    \/ \E i \in Inserters : \E fail_at \in 0..MaxColumns : FlushWriteFails(i, fail_at)
    \/ FinishInsertingPanics
    \/ FinishInserting

Spec == Init /\ [][Next]_vars

\* InsertionManager::new on the Storage that finish_inserting has handed back:
\* the Storage goes behind a new lock as it is, its backend positioned after
\* the footer.  Handles are numbered across the sessions, at most
\* MaxReopenings sessions follow the first.
BeginInsertingAgain ==
    /\ pc = "finished"
    /\ reopened < MaxReopenings
    /\ pc' = "inserting"
    /\ lock' = [writer |-> 0]
    /\ reopened' = reopened + 1
    /\ last' = Call("begin_inserting", 0, {}, NoResult)
    /\ UNCHANGED <<readers, storage_chunk, builder, storage, backend, inserters, io_failures, pushed, accepted, ok_rows, owners, lock_order, bitmap, appended, gen, fed, chunk, fs, table_writer, rows_appended>>

\* Insertion sessions one after the other on the same Storage.
NextSessions ==
    \/ \E name \in NamesFor(builder), datatype \in Datatypes : BuilderColumn(name, datatype)
    \/ BuildInMemory
    \/ BeginInserting
    \/ \E i \in Inserters : CreateInserter(i)
    \/ \E i \in Inserters : \E row \in RowsFor(num_columns(storage)) : EnqueueRow(i, row)
    \/ \E i \in Inserters : Drop(i)
    \/ \E i \in Inserters : AcquireWrite(i)
    \/ \E i \in Inserters : FlushWrite(i)
    \/ \E i \in Inserters : \E fail_at \in 0..MaxColumns : FlushWriteFails(i, fail_at)
    \/ FinishInsertingPanics
    \/ FinishInserting
    \/ BeginInsertingAgain

SpecSessions == Init /\ [][NextSessions]_vars

\* -------------------------------------------- the read guards made explicit
\* In Spec a read guard is taken and released inside one step.  Here each
\* read() is a step of its own: a handle is "creating" while
\* StorageInserter::new holds its read guard and "reading" while enqueue_row
\* holds the guard of its num_columns() lookup.

\* StorageInserter::new: `storage.read()`
CreateInserterRead(i) ==
    /\ pc = "inserting"
    /\ inserters[i].state = "none"
    /\ \A j \in 1..(i - 1) : pushed[j] > 0
    /\ lock.writer = 0
    /\ readers' = readers \cup {i}
    /\ inserters' = [inserters EXCEPT ![i].state = "creating"]
    /\ last' = Call("create_inserter", 0, {}, NoResult)
    /\ UNCHANGED <<pc, builder, storage, backend, io_failures, owners, lock_order, bitmap, appended, gen, fed, chunk, fs, table_writer, rows_appended, storage_chunk, reopened, lock, pushed, accepted, ok_rows>>

\* StorageInserter::new: the hint and the generators are computed under the
\* guard, the guard goes at the end of the block, the handle is returned
CreateInserterDone(i) ==
    /\ pc = "inserting"
    /\ inserters[i].state = "creating"
    /\ i \in readers
    /\ readers' = readers \ {i}
    /\ inserters' = [inserters EXCEPT ![i] = StorageInserter_new(storage)]
    /\ last' = Call("create_inserter", 0, {}, NoResult)
    /\ UNCHANGED <<pc, builder, storage, backend, io_failures, owners, lock_order, bitmap, appended, gen, fed, chunk, fs, table_writer, rows_appended, storage_chunk, reopened, lock, pushed, accepted, ok_rows>>

\* enqueue_row: `self.storage.read()` of the arity check
EnqueueRowRead(i) ==
    /\ pc = "inserting"
    /\ inserters[i].state = "idle"
    /\ TotalPushed < MaxRows
    /\ lock.writer = 0
    /\ readers' = readers \cup {i}
    /\ inserters' = [inserters EXCEPT ![i].state = "reading"]
    /\ last' = Call("enqueue_row", 0, {}, NoResult)
    /\ UNCHANGED <<pc, builder, storage, backend, io_failures, owners, lock_order, bitmap, appended, gen, fed, chunk, fs, table_writer, rows_appended, storage_chunk, reopened, lock, pushed, accepted, ok_rows>>

\* an enqueue_row whose read guard lives until the function returns
EnqueueRowChecked_keeping_guard(i, row) ==
    /\ pc = "inserting"
    /\ inserters[i].state = "reading"
    /\ i \in readers
    /\ \E r \in {enqueue_row([inserters[i] EXCEPT !.state = "idle"], num_columns(storage), row)} :
          /\ inserters' = [inserters EXCEPT ![i] =
                 IF r.flush
                 THEN [flush_append_values(r.ins) EXCEPT !.state = "waiting", !.cause = "enqueue"]
                 ELSE r.ins]
          /\ readers' = IF r.flush THEN readers ELSE readers \ {i}
          /\ last' = Call("enqueue_row", Len(row), {}, IF r.flush THEN NoResult ELSE r.res)
          /\ pushed' = [pushed EXCEPT ![i] =
                @ + Len(r.ins.enqueued_rows) - Len(inserters[i].enqueued_rows)]
          /\ accepted' = [accepted EXCEPT ![i] =
                IF Len(r.ins.enqueued_rows) > Len(inserters[i].enqueued_rows) THEN Append(@, row) ELSE @]
          /\ ok_rows' = IF r.res = Ok /\ ~r.flush THEN ok_rows + 1 ELSE ok_rows
    /\ UNCHANGED <<pc, builder, storage, backend, io_failures, owners, lock_order, bitmap, appended, gen, fed, chunk, fs, table_writer, rows_appended, storage_chunk, reopened, lock>>

\* enqueue_row from the end of the arity check's statement, where the
\* temporary read guard goes, up to flush's request of the write lock
EnqueueRowChecked(i, row) ==
    /\ pc = "inserting"
    /\ inserters[i].state = "reading"
    /\ i \in readers
    /\ readers' = readers \ {i}
    /\ \E r \in {enqueue_row([inserters[i] EXCEPT !.state = "idle"], num_columns(storage), row)} :
          /\ inserters' = [inserters EXCEPT ![i] =
                 IF r.flush
                 THEN [flush_append_values(r.ins) EXCEPT !.state = "waiting", !.cause = "enqueue"]
                 ELSE r.ins]
          /\ last' = Call("enqueue_row", Len(row), {}, IF r.flush THEN NoResult ELSE r.res)
          /\ pushed' = [pushed EXCEPT ![i] =
                @ + Len(r.ins.enqueued_rows) - Len(inserters[i].enqueued_rows)]
          /\ accepted' = [accepted EXCEPT ![i] =
                IF Len(r.ins.enqueued_rows) > Len(inserters[i].enqueued_rows) THEN Append(@, row) ELSE @]
          /\ ok_rows' = IF r.res = Ok /\ ~r.flush THEN ok_rows + 1 ELSE ok_rows
    /\ UNCHANGED <<pc, builder, storage, backend, io_failures, owners, lock_order, bitmap, appended, gen, fed, chunk, fs, table_writer, rows_appended, storage_chunk, reopened, lock>>

\* flush: `self.storage.write()` is granted when no guard is out
WriteLock(i) == readers = {} /\ AcquireWrite(i)

\* One session with every lock request a step of its own, on schemas of at
\* most MaxColumnsSingle columns.  A failing write is taken in a flush that
\* enqueue_row entered (the caller gets the error and goes on).
NextLock ==
    \/ \E name \in NamesFor(builder), datatype \in Datatypes :
          Len(builder) < MaxColumnsSingle /\ BuilderColumn(name, datatype)
    \/ BuildInMemory
    \/ BeginInserting
    \/ \E i \in Inserters : CreateInserterRead(i)
    \/ \E i \in Inserters : CreateInserterDone(i)
    \/ \E i \in Inserters : EnqueueRowRead(i)
    \/ \E i \in Inserters : \E row \in RowsFor(num_columns(storage)) : EnqueueRowChecked(i, row)
    \/ \E i \in Inserters : Drop(i)
    \/ \E i \in Inserters : WriteLock(i)
    \/ \E i \in Inserters : FlushWrite(i)
    \/ \E i \in Inserters : \E fail_at \in 0..MaxColumnsSingle :
          inserters[i].cause = "enqueue" /\ FlushWriteFails(i, fail_at)
    \/ FinishInserting

SpecLock == Init /\ [][NextLock]_vars

\* A fair lock grants a request that can be granted again and again; a
\* thread that holds a read guard runs on; the backend's writes return, so a
\* handle under the write guard does not stay in append_stripe (the steps out
\* of "writing" are FlushWrite and FlushWriteFails, enabled whenever the handle
\* is there: this is weak fairness of the two, written on the handle's place).
SpecLockFair ==
    /\ SpecLock
    /\ \A i \in Inserters :
          /\ SF_vars(WriteLock(i))
          /\ (inserters[i].state = "writing") ~> (inserters[i].state # "writing")
          /\ WF_vars(CreateInserterDone(i))
          /\ WF_vars(\E row \in RowsFor(num_columns(storage)) : EnqueueRowChecked(i, row))

\* One handle, no failing write: the runs of a single Inserter from a fresh
\* Storage up to MaxRowsSingle rows.
NextSingle ==
    \/ \E name \in NamesFor(builder), datatype \in Datatypes :
          Len(builder) < MaxColumnsSingle /\ BuilderColumn(name, datatype)
    \/ BuildInMemory
    \/ BeginInserting
    \/ CreateInserter(1)
    \/ \E row \in RowsFor(num_columns(storage)) : EnqueueRowWithin(1, row, MaxRowsSingle)
    \/ Drop(1)
    \/ AcquireWrite(1)
    \/ FlushWrite(1)
    \/ FinishInserting

SpecSingle == Init /\ [][NextSingle]_vars

\* One handle over schemas of every datatype, up to MaxRowsSchema rows.
NextSchema ==
    \/ \E name \in NamesFor(builder), datatype \in GeneratorDatatypes : BuilderColumn(name, datatype)
    \/ BuildInMemory
    \/ BeginInserting
    \/ CreateInserter(1)
    \/ \E row \in RowsFor(num_columns(storage)) : EnqueueRowWithin(1, row, MaxRowsSchema)
    \/ Drop(1)
    \/ AcquireWrite(1)
    \/ FlushWrite(1)
    \/ FinishInserting

SpecSchema == Init /\ [][NextSchema]_vars

\* ------------------------------------------------ the bitmap on its own
AppendNull ==
    /\ NullsBitmap_len(bitmap) < MaxBits
    /\ bitmap' = NullsBitmap_append_null(bitmap)
    /\ appended' = Append(appended, FALSE)
    /\ last' = Call("append_null", NullsBitmap_len(bitmap), {}, NoResult)
    /\ UNCHANGED <<readers, reopened, storage_chunk, pc, builder, storage, backend, lock, inserters, io_failures, pushed, accepted, ok_rows, owners, lock_order, gen, fed, chunk, fs, table_writer, rows_appended>>

AppendNotNull ==
    /\ NullsBitmap_len(bitmap) < MaxBits
    /\ bitmap' = NullsBitmap_append_not_null(bitmap)
    /\ appended' = Append(appended, TRUE)
    /\ last' = Call("append_not_null", NullsBitmap_len(bitmap), {}, NoResult)
    /\ UNCHANGED <<readers, reopened, storage_chunk, pc, builder, storage, backend, lock, inserters, io_failures, pushed, accepted, ok_rows, owners, lock_order, gen, fed, chunk, fs, table_writer, rows_appended>>

BitmapReset ==
    /\ bitmap' = NullsBitmap_reset(bitmap)
    /\ appended' = <<>>
    /\ last' = Call("reset", NullsBitmap_len(bitmap), {}, NoResult)
    /\ UNCHANGED <<readers, reopened, storage_chunk, pc, builder, storage, backend, lock, inserters, io_failures, pushed, accepted, ok_rows, owners, lock_order, gen, fed, chunk, fs, table_writer, rows_appended>>

NextBitmap ==
    \/ AppendNull
    \/ AppendNotNull
    \/ BitmapReset

SpecBitmap == Init /\ [][NextBitmap]_vars

\* --------------------------------------------- a chunk generator on its own
GeneratorNew(datatype) ==
    /\ gen = NoGenerator
    /\ gen' = get_chunk_generator_for_datatype(datatype)
    /\ fed' = <<>>
    /\ chunk' = <<>>
    /\ last' = Call("get_chunk_generator_for_datatype", 0, {}, NoResult)
    /\ UNCHANGED <<readers, reopened, storage_chunk, pc, builder, storage, backend, lock, inserters, io_failures, pushed, accepted, ok_rows, owners, lock_order, bitmap, appended, fs, table_writer, rows_appended>>

\* append_values on values that validate_value accepts (its precondition)
GeneratorAppendValues(values) ==
    /\ gen # NoGenerator
    /\ Len(fed) + Len(values) <= MaxValues
    /\ \A k \in 1..Len(values) : validate_value(gen, values[k]) = Ok
    /\ gen' = append_values(gen, values)
    /\ fed' = fed \o values
    /\ chunk' = <<>>
    /\ last' = Call("append_values", Len(values), {}, NoResult)
    /\ UNCHANGED <<readers, reopened, storage_chunk, pc, builder, storage, backend, lock, inserters, io_failures, pushed, accepted, ok_rows, owners, lock_order, bitmap, appended, fs, table_writer, rows_appended>>

GeneratorGetEncodedChunk ==
    /\ gen # NoGenerator
    /\ gen' = get_encoded_chunk_gen(gen)
    /\ chunk' = EncodedChunk(get_encoded_chunk_gen(gen)).bytes
    /\ last' = Call("get_encoded_chunk", 0, {}, NoResult)
    /\ UNCHANGED <<readers, reopened, storage_chunk, fed, pc, builder, storage, backend, lock, inserters, io_failures, pushed, accepted, ok_rows, owners, lock_order, bitmap, appended, fs, table_writer, rows_appended>>

GeneratorReset ==
    /\ gen # NoGenerator
    /\ gen' = reset(gen)
    /\ fed' = <<>>
    /\ chunk' = <<>>
    /\ last' = Call("reset", Len(fed), {}, NoResult)
    /\ UNCHANGED <<readers, reopened, storage_chunk, pc, builder, storage, backend, lock, inserters, io_failures, pushed, accepted, ok_rows, owners, lock_order, bitmap, appended, fs, table_writer, rows_appended>>

NextGenerator ==
    \/ \E datatype \in GeneratorDatatypes : GeneratorNew(datatype)
    \/ \E values \in GeneratorValueSeqs : GeneratorAppendValues(values)
    \/ GeneratorGetEncodedChunk
    \/ GeneratorReset

SpecGenerator == Init /\ [][NextGenerator]_vars

\* ------------------------------------------------- the builder and its paths
\* StorageBuilder::at takes &self: the builder can take more columns and be
\* asked again.  A Storage it returns has the new file as its backend.
BuildAt(path) ==
    /\ pc = "building"
    /\ \E r \in {StorageBuilder_at(fs, builder, path)} :
          /\ storage' = r.storage
          /\ fs' = r.fs
          /\ last' = Call("at", 0, {}, r.res)
    /\ backend' = Cursor_new
    /\ UNCHANGED <<readers, reopened, storage_chunk, pc, builder, lock, inserters, io_failures, pushed, accepted, ok_rows, owners, lock_order, bitmap, appended, gen, fed, chunk, table_writer, rows_appended>>

NextBuilder ==
    \/ \E name \in NamesFor(builder), datatype \in Datatypes : BuilderColumn(name, datatype)
    \/ \E path \in Paths : BuildAt(path)

SpecBuilder == Init /\ [][NextBuilder]_vars

\* ------------------------------------------------------------ TableWriter
TableWriterNewInto(block_size, num_generators) ==
    /\ table_writer = NoTableWriter
    /\ table_writer' = TableWriter_new_into(block_size, num_generators)
    /\ rows_appended' = 0
    /\ last' = Call("new_into", 0, {}, Ok)
    /\ UNCHANGED <<readers, reopened, storage_chunk, pc, builder, storage, backend, lock, inserters, io_failures, pushed, accepted, ok_rows, owners, lock_order, bitmap, appended, gen, fed, chunk, fs>>

TableWriterAppendRow(row) ==
    /\ table_writer.state = "open"
    /\ table_writer.num_rows < MaxTableRows
    /\ \E r \in {TableWriter_append_row(table_writer, row)} :
          /\ table_writer' = r.tw
          /\ rows_appended' = IF r.ok THEN rows_appended + 1 ELSE rows_appended
          /\ last' = Call("append_row", Len(row), {},
                          IF r.ok THEN Ok
                          ELSE IF r.tw.state = "panicked" THEN NoResult
                          ELSE InvalidNumberOfColumns(Len(row), Len(table_writer.column_generators)))
    /\ UNCHANGED <<readers, reopened, storage_chunk, pc, builder, storage, backend, lock, inserters, io_failures, pushed, accepted, ok_rows, owners, lock_order, bitmap, appended, gen, fed, chunk, fs>>

TableWriterFinalize ==
    /\ table_writer.state = "open"
    /\ table_writer' = TableWriter_finalize(table_writer)
    /\ last' = Call("finalize", 0, {},
                    IF TableWriter_finalize(table_writer).state = "panicked" THEN NoResult ELSE Ok)
    /\ UNCHANGED <<readers, reopened, storage_chunk, rows_appended, pc, builder, storage, backend, lock, inserters, io_failures, pushed, accepted, ok_rows, owners, lock_order, bitmap, appended, gen, fed, chunk, fs>>

NextTableWriter ==
    \/ \E block_size \in 1..MaxBlockSize, num_generators \in 0..MaxTableColumns :
          TableWriterNewInto(block_size, num_generators)
    \/ \E row \in TableRowsFor(Len(table_writer.column_generators)) : TableWriterAppendRow(row)
    \/ TableWriterFinalize

SpecTableWriter == Init /\ [][NextTableWriter]_vars

\* --------------------------------------------------- a StorageChunk alone
\* a StorageChunk whose two buffers are built by EncodedCompressedBuffer::from
\* from slices of T, as test_storage_chunk_size builds them
StorageChunkFrom(T, compressor, nulls, values) ==
    /\ storage_chunk = NoStorageChunk
    /\ storage_chunk' =
          [T |-> T, nulls |-> nulls, values |-> values,
           compressed_nulls_bitmap |->
              EncodedCompressedBuffer_from("Flat", compressor,
                 [k \in 1..Len(nulls) |-> le_bytes(nulls[k], size_of(T))]),
           compressed_values |->
              EncodedCompressedBuffer_from("Flat", compressor,
                 [k \in 1..Len(values) |-> le_bytes(values[k], size_of(T))])]
    /\ last' = Call("from", Len(nulls) + Len(values), {}, NoResult)
    /\ UNCHANGED <<readers, reopened, pc, builder, storage, backend, lock, inserters, io_failures, pushed, accepted, ok_rows, owners, lock_order, bitmap, appended, gen, fed, chunk, fs, table_writer, rows_appended>>

NextStorageChunk ==
    \E T \in ElementTypes, compressor \in {"Raw", "Snappy"} :
       \E nulls \in SlicesOf(T), values \in SlicesOf(T) : StorageChunkFrom(T, compressor, nulls, values)

SpecStorageChunk == Init /\ [][NextStorageChunk]_vars

\* ================================================================ claims
StripeRows == [k \in 1..Len(storage.stripes) |-> storage.stripes[k].num_rows]

CeilDiv(a, b) == (a + b - 1) \div b

RECURSIVE SumCeil(_, _)
SumCeil(i, m) == IF i = 0 THEN 0 ELSE CeilDiv(pushed[i], m) + SumCeil(i - 1, m)

\* the last directory entry recorded by the Inserter that recorded entry k
LastOfItsInserter(k) == \A j \in (k + 1)..Len(owners) : owners[j] # owners[k]

\* what the claims call a value's defects, read off the schema
VariantMatches(datatype, value) == value.tag = "Null" \/ value.tag = datatype.kind

WrongLength(datatype, value) ==
    datatype.kind = "FixedLength" /\ value.tag = "FixedLength" /\ Len(value.bytes) # datatype.len

OffendingColumns(row) ==
    {c \in 1..Len(row) : \/ ~VariantMatches(storage.columns[c].datatype, row[c])
                         \/ WrongLength(storage.columns[c].datatype, row[c])}

ExpectedError(datatype, value) ==
    IF ~VariantMatches(datatype, value) THEN TypeError
    ELSE InvalidLength(Len(value.bytes), datatype.len)

\* every row the model hands to enqueue_row, whatever the schema
AllRows == UNION {RowsFor(n) : n \in 0..MaxColumns}

\* everything but the record of the last call is as before the step
ProgramStateUnchanged ==
    UNCHANGED <<pc, builder, storage, backend, lock, inserters, io_failures, pushed, accepted, ok_rows, owners, lock_order>>

\* C1 (as stated): once every Inserter is dropped and finish_inserting has
\* returned Ok, num_rows equals the number of enqueue_row calls that returned Ok.
C1_NumRowsEqualsOkCalls == pc = "finished" => storage.num_rows = ok_rows

\* C1 (amended): for a Storage with at least one column, once every Inserter is
\* dropped and finish_inserting has returned Ok, num_rows equals the number of
\* rows enqueue_row has pushed to the buffers, the rows of the calls that
\* returned the IoError of the flush they started included.
C1_NumRowsEqualsBufferedRows ==
    pc = "finished" /\ num_columns(storage) >= 1 => storage.num_rows = TotalPushed

C1_Witness ==
    /\ pc = "finished"
    /\ num_columns(storage) >= 1
    /\ pushed[1] > 0 /\ pushed[2] > 0
    /\ ok_rows < TotalPushed

\* C2 (as stated): after successful enqueue_row calls and finish_inserting the
\* directory has ceil(total_rows / max_rows_in_stripe) entries, all but
\* possibly the last of max_rows_in_stripe rows.
C2_DirectoryIsCeilOfTotal ==
    pc = "finished" /\ ok_rows = TotalPushed =>
        /\ Len(storage.stripes) = CeilDiv(TotalPushed, num_rows_in_stripe_hint(storage))
        /\ \A k \in 1..(Len(storage.stripes) - 1) :
              storage.stripes[k].num_rows = num_rows_in_stripe_hint(storage)

\* C2 (amended): for a Storage with at least one column, after successful
\* enqueue_row calls and finish_inserting the directory has, summed over the
\* Inserters, ceil(rows of the Inserter / max_rows_in_stripe) entries, and
\* every entry but possibly the last one of each Inserter has
\* max_rows_in_stripe rows.
C2_DirectoryIsSumOfCeils ==
    pc = "finished" /\ ok_rows = TotalPushed /\ num_columns(storage) >= 1 =>
        /\ Len(storage.stripes) = SumCeil(MaxInserters, num_rows_in_stripe_hint(storage))
        /\ \A k \in 1..Len(storage.stripes) :
              \/ storage.stripes[k].num_rows = num_rows_in_stripe_hint(storage)
              \/ LastOfItsInserter(k)

C2_Witness ==
    /\ pc = "finished" /\ ok_rows = TotalPushed /\ num_columns(storage) >= 1
    /\ pushed[2] > 0
    /\ \E k \in 1..Len(storage.stripes) :
          storage.stripes[k].num_rows = num_rows_in_stripe_hint(storage)
    /\ \E k \in 1..Len(storage.stripes) :
          storage.stripes[k].num_rows < num_rows_in_stripe_hint(storage)

\* C3: in every reachable state num_rows is the sum of the directory entries'
\* num_rows, failed operations included.
C3_NumRowsIsSumOfStripes == storage.num_rows = SeqSum(StripeRows)

C3_Witness == Len(storage.stripes) >= 2 /\ io_failures > 0 /\ storage.num_rows >= 3

\* C4: from the creation of the Storage on, the backend begins with the
\* signature "SCS".
C4_BackendBeginsWithSignature ==
    storage.exists => Len(backend.bytes) >= 3 /\ SubSeq(backend.bytes, 1, 3) = SIGNATURE

\* C5: the step in which finish_inserting returns Ok appends the signature to
\* the backend: it becomes the last 3 bytes, after everything written before.
C5_FooterEndsBackend ==
    [][pc # "finished" /\ pc' = "finished" =>
          /\ backend'.bytes = backend.bytes \o SIGNATURE
          /\ SubSeq(backend'.bytes, Len(backend'.bytes) - 2, Len(backend'.bytes)) = <<83, 67, 83>>]_vars

C5_Witness == pc = "finished" /\ Len(storage.stripes) >= 1

\* C6: enqueue_row of a row whose length differs from num_columns() returns
\* InvalidNumberOfColumns(row.len(), num_columns()) and changes neither the
\* Inserter nor the Storage.
C6_ArityMismatchRejected ==
    [][\A row \in AllRows : \A i \in Inserters :
          Len(row) # num_columns(storage) /\ EnqueueRow(i, row) =>
              /\ last'.res = InvalidNumberOfColumns(Len(row), num_columns(storage))
              /\ ProgramStateUnchanged]_vars

C6_Witness ==
    /\ last.op = "enqueue_row" /\ last.res.kind = "InvalidNumberOfColumns"
    /\ last.res.a = 3 /\ last.res.b = 2
    /\ \E i \in Inserters : Len(inserters[i].enqueued_rows) > 0

\* C7: enqueue_row of a row of the right length whose first defect is a value
\* of the wrong variant returns TypeError and changes nothing of the Inserter
\* (buffer, generators) or the Storage, so that what follows is what would have
\* followed without the call.
C7_TypeErrorChangesNothing ==
    [][\A row \in AllRows : \A i \in Inserters :
          (/\ Len(row) = num_columns(storage)
           /\ OffendingColumns(row) # {}
           /\ ~VariantMatches(storage.columns[Min(OffendingColumns(row))].datatype,
                              row[Min(OffendingColumns(row))])
           /\ EnqueueRow(i, row)) =>
              /\ last'.res = TypeError
              /\ ProgramStateUnchanged]_vars

C7_Witness ==
    /\ last.op = "enqueue_row" /\ last.res = TypeError /\ last.got = num_columns(storage)
    /\ \E i \in Inserters : Len(inserters[i].enqueued_rows) > 0
    /\ Len(storage.stripes) > 0

\* C8: the generator of a FixedLength(W) column accepts Null, accepts a
\* FixedLength value of W bytes, answers InvalidLength(len, W) to a FixedLength
\* value of another length and TypeError to every other variant.
SampleValues ==
    Values \cup {CV_Byte(1), CV_Int64(1), CV_Float(1), CV_FixedLength(<<>>),
                 CV_FixedLength(<<1, 2, 3>>), CV_VariableLength(<<1, 2>>)}

C8_FixedLengthValidation ==
    \A i \in Inserters : \A c \in 1..Len(inserters[i].chunk_generators) :
        storage.columns[c].datatype.kind = "FixedLength" =>
            \A v \in SampleValues :
                validate_value(inserters[i].chunk_generators[c], v) =
                    IF v.tag = "Null" THEN Ok
                    ELSE IF v.tag # "FixedLength" THEN TypeError
                    ELSE IF Len(v.bytes) = storage.columns[c].datatype.len THEN Ok
                    ELSE InvalidLength(Len(v.bytes), storage.columns[c].datatype.len)

C8_Witness ==
    /\ last.op = "enqueue_row" /\ last.res = InvalidLength(1, 2)
    /\ \E i \in Inserters : \E c \in 1..Len(inserters[i].chunk_generators) :
          inserters[i].chunk_generators[c].kind = "FixedLength"

\* C9: enqueue_row of a row of the right length with several invalid values
\* returns the error of the first of them in column order and buffers nothing.
C9_FirstOffendingValueReported ==
    [][\A row \in AllRows : \A i \in Inserters :
          (/\ Len(row) = num_columns(storage)
           /\ Cardinality(OffendingColumns(row)) >= 2
           /\ EnqueueRow(i, row)) =>
              /\ last'.res = ExpectedError(storage.columns[Min(OffendingColumns(row))].datatype,
                                           row[Min(OffendingColumns(row))])
              /\ ProgramStateUnchanged]_vars

C9_Witness ==
    /\ last.op = "enqueue_row" /\ Cardinality(last.bad) >= 2
    /\ last.res.kind = "InvalidLength"
    /\ storage.columns[2].datatype.kind # "FixedLength"
    /\ \E i \in Inserters : Len(inserters[i].enqueued_rows) > 0

\* C10: building from a column list that holds a name twice returns
\* InvalidFormat, creates no Storage and writes no byte to the backend.
C10_DuplicateNameRejected ==
    (pc # "building" /\ \E i, j \in 1..Len(builder) : i # j /\ builder[i].name = builder[j].name) =>
        /\ pc = "build_failed"
        /\ last.res = InvalidFormat
        /\ ~storage.exists
        /\ backend.bytes = <<>>

C10_Witness == pc = "build_failed" /\ Len(builder) = 2 /\ builder[1].name = builder[2].name

\* C11: a finish_inserting step taken while some Inserter is neither dropped
\* nor uncreated panics and leaves backend and Storage as they are (no
\* footer); a finish_inserting step that hands the Storage back is taken only
\* when every created Inserter has been dropped.
C11_FinishNeedsAllDropped ==
    [][pc = "inserting" /\ last'.op = "finish_inserting" =>
          /\ (\E i \in Inserters : inserters[i].state \in {"idle", "waiting", "writing"}) =>
                 pc' = "panicked" /\ backend' = backend /\ storage' = storage
          /\ pc' \in {"finished", "finish_failed"} =>
                 \A i \in Inserters : inserters[i].state \in {"none", "dropped"}]_vars

C11_Witness ==
    /\ pc = "panicked" /\ last.op = "finish_inserting"
    /\ \E i \in Inserters : inserters[i].state = "idle" /\ Len(inserters[i].enqueued_rows) > 0
    /\ \E i \in Inserters : inserters[i].state = "dropped"
    /\ Len(storage.stripes) > 0

\* a run of Inserter 1 alone in which no write has failed
SingleInserterNoFailure ==
    /\ storage.exists
    /\ io_failures = 0
    /\ \A i \in Inserters \ {1} : inserters[i].state = "none"

\* the first stripe boundary of Inserter 1 has just been passed: exactly
\* max_rows_in_stripe calls have returned Ok
AtFirstBoundary ==
    /\ SingleInserterNoFailure
    /\ inserters[1].state = "idle"
    /\ ok_rows = num_rows_in_stripe_hint(storage)
    /\ pushed[1] = num_rows_in_stripe_hint(storage)

FirstStripeRecorded ==
    /\ Len(storage.stripes) = 1
    /\ storage.stripes[1].num_rows = num_rows_in_stripe_hint(storage)

\* the step of the call after the boundary: it returns without a flush
OneMoreRowOnlyBuffered ==
    (AtFirstBoundary /\ pushed'[1] = pushed[1] + 1) =>
        /\ inserters'[1].state = "idle"
        /\ Len(inserters'[1].enqueued_rows) = Len(inserters[1].enqueued_rows) + 1
        /\ storage' = storage
        /\ backend' = backend

\* a flush that goes for the write lock is drop's or the one of a full buffer
FlushOnlyAtBoundaryOrDrop ==
    (SingleInserterNoFailure /\ inserters[1].state \in {"waiting", "writing"}) =>
        \/ inserters[1].cause = "drop"
        \/ Len(inserters[1].enqueued_rows) = inserters[1].max_rows_in_stripe

\* C12 (as stated): with one Inserter on a fresh Storage, after exactly
\* max_rows_in_stripe successful enqueue_row calls the directory has one entry
\* of max_rows_in_stripe rows; one more enqueue_row records and writes
\* nothing, its row waits for the next boundary or the drop.
C12_BoundaryFlushesOneStripe ==
    [][/\ (AtFirstBoundary => FirstStripeRecorded)'
       /\ OneMoreRowOnlyBuffered
       /\ FlushOnlyAtBoundaryOrDrop']_vars

\* C12 (amended): the same for a Storage with at least one column.
C12_BoundaryFlushesOneStripeWithColumns ==
    [][num_columns(storage') >= 1 =>
          /\ (AtFirstBoundary => FirstStripeRecorded)'
          /\ OneMoreRowOnlyBuffered
          /\ FlushOnlyAtBoundaryOrDrop']_vars

C12_Witness ==
    /\ SingleInserterNoFailure
    /\ num_columns(storage) >= 1
    /\ inserters[1].state = "idle"
    /\ pushed[1] = num_rows_in_stripe_hint(storage) + 1
    /\ ok_rows = pushed[1]
    /\ FirstStripeRecorded
    /\ Len(inserters[1].enqueued_rows) = 1

\* the bytes of the stripe that fresh generators write for `rows`: header, then chunks
ExpectedStripe(rows) ==
    LET ins == [StorageInserter_new(storage) EXCEPT !.enqueued_rows = rows]
    IN StorageInserter_append_stripe(storage, Cursor_new, Len(rows),
                                     encoded_stripe(flush_append_values(ins)), -1).backend.bytes

\* the directory entries recorded by Inserter i
StripesOf(i) == {k \in 1..Len(owners) : owners[k] = i}

\* the rows in the entries that the Inserter of entry k recorded before it
RowsBefore(k) ==
    SeqSum([j \in 1..(k - 1) |-> IF owners[j] = owners[k] THEN storage.stripes[j].num_rows ELSE 0])

\* the rows of its Inserter that entry k stands for, in the order of their calls
StripeSegment(k) ==
    SubSeq(accepted[owners[k]], RowsBefore(k) + 1, RowsBefore(k) + storage.stripes[k].num_rows)

\* the backend holds, at the offset of entry k, the stripe of exactly `rows`
StripeHolds(k, rows) ==
    LET e == ExpectedStripe(rows)
        off == storage.stripes[k].absolute_offset
    IN /\ off + Len(e) <= Len(backend.bytes)
       /\ SubSeq(backend.bytes, off + 1, off + Len(e)) = e

\* C13: once an Inserter of a Storage with columns has been dropped (its drop
\* has returned), the entries it recorded stand for as many rows as it
\* accepted and each of them holds its rows once, in order: no row is lost, no
\* row is written twice.
C13_DropLeavesEveryRowInOneStripe ==
    \A i \in Inserters :
        (inserters[i].state = "dropped" /\ pc # "panicked" /\ num_columns(storage) >= 1) =>
            /\ SeqSum([k \in 1..Len(owners) |->
                          IF owners[k] = i THEN storage.stripes[k].num_rows ELSE 0])
                  = Len(accepted[i])
            /\ \A k \in StripesOf(i) : StripeHolds(k, StripeSegment(k))

RecordedStripe(e) == e.recorded

\* the Inserters of the write-lock acquisitions whose flush recorded a stripe,
\* in the order of the acquisitions
RecordingLockers ==
    [k \in 1..Len(SelectSeq(lock_order, RecordedStripe)) |->
        SelectSeq(lock_order, RecordedStripe)[k].who]

\* C14: the directory lists the stripes in the order in which their Inserters
\* took the write lock for the flushes that recorded them, and the stripes lie
\* in the backend in that same order.
C14_StripeOrderIsLockOrder ==
    /\ Len(owners) = Len(storage.stripes)
    /\ owners = RecordingLockers
    /\ \A k \in 1..(Len(storage.stripes) - 1) :
          storage.stripes[k].absolute_offset < storage.stripes[k + 1].absolute_offset

C14_Witness ==
    /\ owners = <<2, 1>>
    /\ Len(lock_order) = 3
    /\ storage.stripes[1].absolute_offset < storage.stripes[2].absolute_offset

\* C15: at every moment the directory entries of an Inserter, taken in
\* directory order, stand for consecutive runs of the rows it accepted, in the
\* order of its enqueue_row calls, and each stripe holds exactly its run in
\* that order: no row lands after a row enqueued later.
C15_RowsInEnqueueOrder ==
    \A k \in 1..Len(owners) :
        /\ RowsBefore(k) + storage.stripes[k].num_rows <= Len(accepted[owners[k]])
        /\ StripeHolds(k, StripeSegment(k))

\* the header cells of the stripe that starts at offset off of the backend
HeaderNumRows(off) == backend.bytes[off + 1]

HeaderStripeSize(off) == backend.bytes[off + 2]

HeaderNumChunks(off) == backend.bytes[off + 3]

HeaderLen(off) == 3 + 5 * HeaderNumChunks(off)

ChunkRelativeOffset(off, c) == backend.bytes[off + 3 + 5 * (c - 1) + 1]

ChunkCompressedSize(off, c) == backend.bytes[off + 3 + 5 * (c - 1) + 2]

\* where the stripe that starts at off ends: its header, then stripe_size bytes
StripeEnd(off) == off + HeaderLen(off) + HeaderStripeSize(off)

\* the stripe of entry k is one run of bytes: its header, then its chunks one
\* after the other, filling exactly stripe_size bytes
StripeContiguous(k) ==
    LET off == storage.stripes[k].absolute_offset
    IN /\ off + 3 <= Len(backend.bytes)
       /\ StripeEnd(off) <= Len(backend.bytes)
       /\ HeaderNumRows(off) = storage.stripes[k].num_rows
       /\ HeaderNumChunks(off) = num_columns(storage)
       /\ \A c \in 1..HeaderNumChunks(off) :
             ChunkRelativeOffset(off, c) =
                 SeqSum([j \in 1..(c - 1) |-> ChunkCompressedSize(off, j)])
       /\ HeaderStripeSize(off) =
             SeqSum([j \in 1..HeaderNumChunks(off) |-> ChunkCompressedSize(off, j)])

StripesDoNotOverlap ==
    \A k \in 1..(Len(storage.stripes) - 1) :
        StripeEnd(storage.stripes[k].absolute_offset) <= storage.stripes[k + 1].absolute_offset

\* a step of an Inserter that writes, seeks or records
InserterMutates ==
    /\ pc = "inserting"
    /\ last'.op # "finish_inserting"
    /\ backend' # backend \/ storage' # storage

\* C16: a step in which an Inserter writes to or seeks in the backend or
\* changes the directory or num_rows is taken by the Inserter that holds the
\* write lock, and after every step each recorded stripe is one run of bytes
\* (header, then chunks) that no other stripe reaches into.
C16_MutationsUnderWriteLock ==
    [][/\ InserterMutates =>
             /\ lock.writer \in Inserters
             /\ inserters[lock.writer].state = "writing"
             /\ \A j \in Inserters \ {lock.writer} : inserters'[j] = inserters[j]
       /\ (\A k \in 1..Len(storage.stripes) : StripeContiguous(k))'
       /\ StripesDoNotOverlap']_vars

C16_Witness ==
    /\ owners = <<1, 2>>
    /\ io_failures = 1
    /\ num_columns(storage) = 2
    /\ StripeEnd(storage.stripes[1].absolute_offset) < storage.stripes[2].absolute_offset

NextFlushStripe(ins) == encoded_stripe(flush_append_values(ins))

\* C18: a flush whose append_stripe fails returns the error and leaves the
\* generators as they were before the call, so the next flush of the handle
\* hands over the stripe that new generators would build from the buffered
\* rows: each row once.
C18_FailedFlushKeepsGenerators ==
    [][(pc = "inserting" /\ lock.writer \in Inserters /\ io_failures' = io_failures + 1) =>
          /\ last'.res = IoError
          /\ inserters'[lock.writer].enqueued_rows = inserters[lock.writer].enqueued_rows
          /\ NextFlushStripe(inserters'[lock.writer]) =
                NextFlushStripe([StorageInserter_new(storage) EXCEPT
                                    !.enqueued_rows = inserters[lock.writer].enqueued_rows])]_vars

\* C19: after the flags b_0 .. b_(n-1) have been appended to a new or reset
\* bitmap, len() is n, the raw bits are ceil(n / 8) bytes, bit (i mod 8) of
\* byte (i div 8), counted from the least significant, is set exactly when b_i
\* is true, and the bits of the last byte from position n on are clear.
C19_BitsPackedLsbFirst ==
    LET n == Len(appended)
        bits == NullsBitmap_get_raw_bits(bitmap)
    IN /\ NullsBitmap_len(bitmap) = n
       /\ Len(bits) = CeilDiv(n, 8)
       /\ \A k \in 1..Len(bits) : bits[k] \in 0..255
       /\ \A i \in 0..(n - 1) : BitSet(bits[(i \div 8) + 1], i % 8) <=> appended[i + 1]
       /\ \A p \in n..(8 * Len(bits) - 1) : ~BitSet(bits[(p \div 8) + 1], p % 8)

\* null, null, value, null, null, value, null, value, value
C19_Witness ==
    /\ appended = <<FALSE, FALSE, TRUE, FALSE, FALSE, TRUE, FALSE, TRUE, TRUE>>
    /\ NullsBitmap_len(bitmap) = 9
    /\ NullsBitmap_get_raw_bits(bitmap) = <<164, 1>>

\* C20: after reset() len() is 0 and the raw bits are empty.
C20_ResetEmpties ==
    last.op = "reset" =>
        /\ NullsBitmap_len(bitmap) = 0
        /\ NullsBitmap_get_raw_bits(bitmap) = <<>>

\* a reset of a bitmap that held nine values in two bytes
C20_Witness ==
    /\ last.op = "reset"
    /\ last.got = 9
    /\ NullsBitmap_len(bitmap) = 0
    /\ NullsBitmap_get_raw_bits(bitmap) = <<>>

\* ------------------------------------------------- the generator on its own
\* the values appended since the last reset that are not Null
PresentValues == {k \in 1..Len(fed) : fed[k].tag # "Null"}

\* sizeof(N)
SizeOfElement(N) == CASE N = "i8" -> 1 [] N = "i32" -> 4 [] N = "i64" -> 8 [] N = "f32" -> 4

\* C21: the chunk that get_encoded_chunk returns for the values appended since
\* new() or reset() has the length of the generator's size formula: numeric
\* sizeof(N) * count, fixed-length count + W * present_count, variable-length
\* 4 * count + the sum of the payload lengths.
C21_EncodedLengthFormula ==
    last.op = "get_encoded_chunk" =>
        Len(chunk) =
            CASE gen.kind = "Numeric" -> SizeOfElement(gen.N) * Len(fed)
              [] gen.kind = "FixedLength" ->
                    Len(fed) + gen.value_size * Cardinality(PresentValues)
              [] gen.kind = "VariableLength" ->
                    4 * Len(fed) + SeqSum([k \in 1..Len(fed) |-> Len(fed[k].bytes)])

C21_Witness ==
    /\ last.op = "get_encoded_chunk"
    /\ gen.kind = "FixedLength"
    /\ fed = <<CV_FixedLength(<<1, 2>>), CV_Null, CV_FixedLength(<<3, 4>>)>>
    /\ Len(chunk) = 7

\* one flag byte per value appended since the last reset: 1 for Null, 0 otherwise
FlagBytes == [k \in 1..Len(fed) |-> IF fed[k].tag = "Null" THEN 1 ELSE 0]

\* the payloads of those values, one after the other (Null has none)
PayloadBytes == Flatten([k \in 1..Len(fed) |-> fed[k].bytes])

\* C28: the chunk a FixedLengthChunkGenerator returns is the flag bytes of the
\* rows appended since the last reset, in row order, followed by the W-byte
\* payloads of the present rows in row order, and nothing else.
C28_FixedLengthChunkLayout ==
    (last.op = "get_encoded_chunk" /\ gen.kind = "FixedLength") =>
        /\ chunk = FlagBytes \o PayloadBytes
        /\ \A k \in PresentValues : Len(fed[k].bytes) = gen.value_size

\* a chunk taken while the scratch buffer still held an earlier, longer one
C28_Witness ==
    /\ last.op = "get_encoded_chunk"
    /\ gen.kind = "FixedLength"
    /\ fed = <<CV_Null, CV_FixedLength(<<3, 4>>)>>
    /\ chunk = <<1, 0, 3, 4>>

\* C29: a VariableLengthChunkGenerator holds one size per value appended since
\* the last reset, a signed 32-bit integer that is -1 exactly for a Null and
\* the payload's length otherwise, and the sizes that are not negative add up
\* to the length of the payload bytes it holds.
C29_VariableLengthSizes ==
    gen.kind = "VariableLength" =>
        /\ Len(gen.sizes) = Len(fed)
        /\ \A k \in 1..Len(fed) :
              /\ gen.sizes[k] >= -2147483647 - 1 /\ gen.sizes[k] <= 2147483647
              /\ gen.sizes[k] = -1 <=> fed[k].tag = "Null"
              /\ fed[k].tag # "Null" => gen.sizes[k] = Len(fed[k].bytes) /\ gen.sizes[k] >= 0
        /\ SeqSum([k \in 1..Len(gen.sizes) |-> IF gen.sizes[k] >= 0 THEN gen.sizes[k] ELSE 0]) =
              Len(gen.values)

C29_Witness ==
    /\ last.op = "append_values"
    /\ gen.kind = "VariableLength"
    /\ fed = <<CV_VariableLength(<<6, 7>>), CV_Null, CV_VariableLength(<<>>)>>
    /\ gen.sizes = <<2, -1, 0>>
    /\ gen.values = <<6, 7>>

\* the element of type N that stands for a value of GeneratorValues, as the
\* bytes it has in memory: the sentinel for Null, the value itself otherwise
ExpectedElement(N, value) ==
    CASE value.tag = "Null" /\ N = "i8" -> <<128>>
      [] value.tag = "Null" /\ N = "i32" -> <<0, 0, 0, 128>>
      [] value.tag = "Null" /\ N = "i64" -> <<0, 0, 0, 0, 0, 0, 0, 128>>
      [] value.tag = "Null" /\ N = "f32" -> <<0, 0, 128, 255>>
      [] value = CV_Byte(-3) -> <<253>>
      [] value = CV_Int32(7) -> <<7, 0, 0, 0>>
      [] value = CV_Int64(-2) -> <<254, 255, 255, 255, 255, 255, 255, 255>>
      [] value = CV_Float(1065353216) -> <<0, 0, 128, 63>>

\* the ColumnValue variant that carries an N
VariantOf(N) ==
    CASE N = "i8" -> "Byte" [] N = "i32" -> "Int32" [] N = "i64" -> "Int64" [] N = "f32" -> "Float"

\* C30: a NumericChunkGenerator<N> holds one element per value appended since
\* the last reset, in row order: the null sentinel of N for a Null, the value
\* itself otherwise; its validate_value answers Ok to Null and to the variant
\* of N and TypeError to every other variant.
C30_NumericElements ==
    gen.kind = "Numeric" =>
        /\ Len(gen.values) = Len(fed)
        /\ \A k \in 1..Len(fed) : gen.values[k] = ExpectedElement(gen.N, fed[k])
        /\ \A v \in SampleValues \cup GeneratorValues :
              validate_value(gen, v) =
                  IF v.tag = "Null" \/ v.tag = VariantOf(gen.N) THEN Ok ELSE TypeError

C30_Witness ==
    /\ last.op = "append_values"
    /\ gen.kind = "Numeric"
    /\ gen.N = "i64"
    /\ fed = <<CV_Int64(-2), CV_Null, CV_Int64(-2)>>
    /\ gen.values[2] = <<0, 0, 0, 0, 0, 0, 0, 128>>

\* names asked of column_by_name: those the builder can give and one it cannot
LookupNames == {Names[k] : k \in 1..Len(Names)} \cup {"col3"}

\* C22: a Storage built from the builder's columns c_0 .. c_(n-1) (their
\* names distinct, or init had failed) has n columns; column(i) has the name
\* c_i and the index i; column_by_name(c_i) is the column with index i;
\* column_by_name of a name that is not in the schema is None.
C22_ColumnAccessors ==
    storage.exists =>
        /\ num_columns(storage) = Len(builder)
        /\ \A i \in 0..(Len(builder) - 1) :
              /\ Column_name(column(storage, i)) = builder[i + 1].name
              /\ num_column_in_storage(column(storage, i)) = i
              /\ column_by_name(storage, builder[i + 1].name).some
              /\ num_column_in_storage(column_by_name(storage, builder[i + 1].name).v) = i
        /\ \A name \in LookupNames :
              (\A i \in 1..Len(builder) : builder[i].name # name) =>
                  ~column_by_name(storage, name).some

C22_Witness ==
    /\ storage.exists
    /\ num_columns(storage) = 2
    /\ Column_name(column(storage, 0)) = "a"
    /\ Column_name(column(storage, 1)) = "b"
    /\ num_column_in_storage(column_by_name(storage, "b").v) = 1
    /\ ~column_by_name(storage, "col3").some

\* ------------------------------------------------- the builder and its paths
\* what the path names in the file system
TargetOf(path) == IF path.absolute THEN path.comps ELSE fs.cwd \o path.comps

IsEmptyPath(path) == path = Path(FALSE, <<>>)

TargetIsDirectory(path) == ~IsEmptyPath(path) /\ TargetOf(path) \in fs.dirs

TargetIsRegularFile(path) == ~IsEmptyPath(path) /\ TargetOf(path) \in fs.files

\* nothing exists where the target's parent directory would be
NoExistingParent(path) ==
    /\ TargetOf(path) # <<>>
    /\ SubSeq(TargetOf(path), 1, Len(TargetOf(path)) - 1) \notin (fs.dirs \cup fs.files)

C24_FailedAtCreatesNoFile ==
    [][\A path \in Paths :
          (BuildAt(path) /\ last'.res \in {InvalidPath, FileAlreadyExists, InvalidFormat}) =>
              fs' = fs]_vars

\* ------------------------------------------------------------ TableWriter
\* C25: while a TableWriter with block size B takes rows, after n append_row
\* calls have returned Ok its block directory has n div B entries of B rows
\* each and num_rows_in_current_block is n mod B.
C25_BlocksAreFullBlocks ==
    table_writer.state = "open" =>
        /\ Len(table_writer.table_metadata.blocks) = rows_appended \div table_writer.block_size
        /\ \A k \in 1..Len(table_writer.table_metadata.blocks) :
              table_writer.table_metadata.blocks[k].num_rows_in_block = table_writer.block_size
        /\ table_writer.num_rows_in_current_block = rows_appended % table_writer.block_size

C25_Witness ==
    /\ table_writer.state = "open"
    /\ table_writer.block_size = 2
    /\ Len(table_writer.column_generators) = 1
    /\ rows_appended = 3
    /\ Len(table_writer.table_metadata.blocks) = 1
    /\ table_writer.num_rows_in_current_block = 1

\* the last n bytes of the writer
WrittenTail(n) ==
    SubSeq(table_writer.writer.bytes, Len(table_writer.writer.bytes) - n + 1,
           Len(table_writer.writer.bytes))

\* C26: once finalize has returned Ok the written bytes begin with the four
\* bytes of HEADER and end with them; the rows of a partly filled block are in
\* a block of the directory, and that directory and the offset it starts at
\* lie right before the closing signature.
C26_SignatureAtBothEnds ==
    table_writer.state = "finalized" =>
        LET bytes == table_writer.writer.bytes
            footer == encode_TableMetadata(table_writer.table_metadata)
            offset == Len(bytes) - 4 - 8 - Len(footer)
        IN /\ Len(bytes) >= 8
           /\ SubSeq(bytes, 1, 4) = <<83, 78, 69, 76>>
           /\ WrittenTail(4) = <<83, 78, 69, 76>>
           /\ table_writer.num_rows_in_current_block = 0
           /\ SeqSum([k \in 1..Len(table_writer.table_metadata.blocks) |->
                         table_writer.table_metadata.blocks[k].num_rows_in_block]) = rows_appended
           /\ offset >= 4
           /\ WrittenTail(12 + Len(footer)) = footer \o encode_usize(offset) \o <<83, 78, 69, 76>>
           /\ \A k \in 1..Len(table_writer.table_metadata.blocks) :
                 \A c \in 1..Len(table_writer.table_metadata.blocks[k].chunks) :
                     table_writer.table_metadata.blocks[k].chunks[c].offset_in_file < offset

\* finalize with one row in the current block
C26_Witness ==
    /\ table_writer.state = "finalized"
    /\ table_writer.block_size = 2
    /\ Len(table_writer.column_generators) = 1
    /\ rows_appended = 3
    /\ Len(table_writer.table_metadata.blocks) = 2
    /\ table_writer.table_metadata.blocks[2].num_rows_in_block = 1

\* ---------------------------------------------------------- stripe layout
\* the five cells of the c-th chunk header of the stripe header that starts
\* at offset off of bytes
ChunkHeaderCells(bytes, off, c) == SubSeq(bytes, off + 3 + 5 * (c - 1) + 1, off + 3 + 5 * c)

\* the bytes that follow a stripe header of n chunk headers, from the
\* relative offset rel on, size of them
BytesAfterHeader(bytes, off, n, rel, size) ==
    SubSeq(bytes, off + 3 + 5 * n + rel + 1, off + 3 + 5 * n + rel + size)

\* C27: the step that records a stripe has written, at the recorded offset, a
\* header with one chunk header per column in column order, each with the
\* relative offset that is the sum of the compressed sizes before it, a
\* stripe_size that is the sum of all of them, and after the header, at that
\* relative offset, the bytes of the column's chunk.
C27_StripeHeaderLayout ==
    [][(pc = "inserting" /\ lock.writer \in Inserters
            /\ Len(storage'.stripes) = Len(storage.stripes) + 1) =>
          LET chunks == [c \in 1..Len(inserters[lock.writer].chunk_generators) |->
                            EncodedChunk(get_encoded_chunk_gen(
                                inserters[lock.writer].chunk_generators[c])).bytes]
              n == Len(chunks)
              off == storage'.stripes[Len(storage'.stripes)].absolute_offset
              bytes == backend'.bytes
          IN /\ n = num_columns(storage)
             /\ \A c \in 1..n :
                   inserters[lock.writer].chunk_generators[c].kind =
                       get_chunk_generator_for_datatype(storage.columns[c].datatype).kind
             /\ bytes[off + 1] = storage'.stripes[Len(storage'.stripes)].num_rows
             /\ bytes[off + 2] = SeqSum([c \in 1..n |-> Len(chunks[c])])
             /\ bytes[off + 3] = n
             /\ \A c \in 1..n :
                   /\ ChunkHeaderCells(bytes, off, c) =
                         <<SeqSum([k \in 1..(c - 1) |-> Len(chunks[k])]),
                           Len(chunks[c]), Len(chunks[c]), 0, 0>>
                   /\ BytesAfterHeader(bytes, off, n, ChunkHeaderCells(bytes, off, c)[1],
                                       Len(chunks[c])) = chunks[c]]_vars

\* a stripe of two columns whose chunks differ in length
C27_Witness ==
    /\ num_columns(storage) = 2
    /\ Len(storage.stripes) >= 1
    /\ storage.columns[1].datatype.kind = "VariableLength"
    /\ storage.columns[2].datatype.kind = "Int32"
    /\ ChunkCompressedSize(storage.stripes[1].absolute_offset, 1) > 4
    /\ ChunkRelativeOffset(storage.stripes[1].absolute_offset, 2) =
          ChunkCompressedSize(storage.stripes[1].absolute_offset, 1)

\* C31: a stripe with zero rows is never flushed.  The flush of an Inserter
\* whose enqueued_rows is empty (the one drop runs) returns at once: the handle
\* never asks for the write lock, and the lock, the Storage and the backend are
\* left as they were; every entry of the stripe directory has num_rows >= 1 in
\* every reachable state.
EmptyFlushTouchesNothing ==
    \A i \in Inserters :
        (/\ inserters[i].state = "idle"
         /\ Len(inserters[i].enqueued_rows) = 0
         /\ inserters'[i] # inserters[i]
         /\ last'.op = "drop")
        => /\ inserters'[i].state = "dropped"
           /\ lock' = lock
           /\ lock_order' = lock_order
           /\ storage' = storage
           /\ backend' = backend
           /\ io_failures' = io_failures
           /\ pc' = pc

NoEmptyStripe == \A k \in 1..Len(storage.stripes) : storage.stripes[k].num_rows >= 1

C31_NoZeroRowStripe == []NoEmptyStripe /\ [][EmptyFlushTouchesNothing]_vars

\* an Inserter that has flushed a stripe is dropped with nothing buffered
C31_Witness ==
    /\ last.op = "drop"
    /\ Len(storage.stripes) >= 1
    /\ \A j \in Inserters : inserters[j].state \notin {"waiting", "writing"}
    /\ \E i \in Inserters :
          /\ inserters[i].state = "dropped"
          /\ owners[Len(owners)] = i
          /\ pushed[i] = storage.stripes[Len(storage.stripes)].num_rows

\* C32: append_stripe called with zero column chunks (a Storage without
\* columns) is a silent no-op: the flush that calls it returns Ok, nothing is
\* written to the backend, the stripe directory gets no entry and num_rows
\* stays as it was.
ZeroChunkFlushIsNoop ==
    \A i \in Inserters :
        (/\ inserters[i].state = "writing"
         /\ Len(encoded_stripe(inserters[i])) = 0
         /\ inserters'[i].state # "writing")
        => /\ last'.op = "flush"
           /\ last'.res = (IF inserters[i].cause = "enqueue" THEN Ok ELSE NoResult)
           /\ pc' = pc
           /\ backend' = backend
           /\ storage'.stripes = storage.stripes
           /\ storage'.num_rows = storage.num_rows
           /\ io_failures' = io_failures

C32_ZeroChunkStripeIsNoop == [][ZeroChunkFlushIsNoop]_vars

\* a flush of buffered rows has returned on a Storage without columns
C32_Witness ==
    /\ pc = "inserting"
    /\ num_columns(storage) = 0
    /\ last.op = "flush"
    /\ \E i \in Inserters : pushed[i] >= 1 /\ inserters[i].enqueued_rows = <<>>
    /\ Len(storage.stripes) = 0
    /\ storage.num_rows = 0
    /\ backend = Cursor_new

\* C33: an Inserter's max_rows_in_stripe is (blocks_in_stripe * disk_block_size)
\* divided, with integer division, by m, the largest value size among the
\* numeric columns of the schema (Byte 1, Int32 4, Int64 8, Float 4), m being 1
\* for a schema without numeric column; FixedLength and VariableLength columns
\* do not count, and the value stays the same from the handle's creation on.
NumericSize(datatype) ==
    CASE datatype.kind = "Byte" -> 1
      [] datatype.kind = "Int32" -> 4
      [] datatype.kind = "Int64" -> 8
      [] datatype.kind = "Float" -> 4
      [] OTHER -> 0

LargestNumericSize ==
    LET sizes == {NumericSize(builder[c].datatype) : c \in 1..Len(builder)} \ {0}
    IN IF sizes = {} THEN 1 ELSE CHOOSE m \in sizes : \A n \in sizes : n <= m

C33_MaxRowsInStripeFormula ==
    \A i \in Inserters :
        inserters[i].state # "none"
        => inserters[i].max_rows_in_stripe =
              (blocks_in_stripe * disk_block_size) \div LargestNumericSize

\* a Byte and an Int64 column next to each other: m = 8, and a stripe has been
\* flushed since the handle's creation
C33_Witness ==
    /\ Len(builder) = 2
    /\ {builder[1].datatype.kind, builder[2].datatype.kind} = {"Byte", "Int64"}
    /\ inserters[1].state = "idle"
    /\ Len(storage.stripes) >= 1
    /\ inserters[1].max_rows_in_stripe = (blocks_in_stripe * disk_block_size) \div 8

\* C34: a buffer built with the Flat encoder and the Raw compressor holds the
\* bytes of its input, neither more nor fewer: byte k of compressed_data is
\* byte (k-1) mod sizeof(T) of element (k-1) div sizeof(T) of the slice.  The
\* total compressed size of a StorageChunk built this way is sizeof(T) times
\* the number of elements of its nulls and values slices.
ByteOfElement(e, j) == (e \div (CASE j = 0 -> 1 [] j = 1 -> 256 [] j = 2 -> 65536 [] j = 3 -> 16777216)) % 256

SameBytes(T, data, buf) ==
    LET w == IF T = "i8" THEN 1 ELSE 4
    IN /\ Len(buf.compressed_data) = w * Len(data)
       /\ \A k \in 1..Len(buf.compressed_data) :
             buf.compressed_data[k] = ByteOfElement(data[((k - 1) \div w) + 1], (k - 1) % w)

C34_FlatRawIsIdentity ==
    (storage_chunk.T # "" /\ storage_chunk.compressed_values.compressor = "Raw")
    => /\ SameBytes(storage_chunk.T, storage_chunk.nulls, storage_chunk.compressed_nulls_bitmap)
       /\ SameBytes(storage_chunk.T, storage_chunk.values, storage_chunk.compressed_values)
       /\ get_total_compressed_size(storage_chunk) =
             (IF storage_chunk.T = "i8" THEN 1 ELSE 4)
                * (Len(storage_chunk.nulls) + Len(storage_chunk.values))

\* two slices of i32 of different lengths, one element negative and one wider
\* than a byte
C34_Witness ==
    /\ storage_chunk.T = "i32"
    /\ storage_chunk.compressed_values.compressor = "Raw"
    /\ storage_chunk.nulls = <<-2, 70000>>
    /\ storage_chunk.values = <<4>>
    /\ get_total_compressed_size(storage_chunk) = 12

\* C35: an Inserter's enqueued_rows never holds more than max_rows_in_stripe
\* rows, also after a flush that enqueue_row triggered has failed with an I/O
\* error, and it is empty after every flush that succeeds.
BufferWithinStripe ==
    \A i \in Inserters :
        inserters[i].state # "none"
        => Len(inserters[i].enqueued_rows) <= inserters[i].max_rows_in_stripe

SuccessfulFlushEmptiesBuffer ==
    \A i \in Inserters :
        (/\ inserters[i].state = "writing"
         /\ inserters'[i].state # "writing"
         /\ last'.res \in {Ok, NoResult})
        => inserters'[i].enqueued_rows = <<>>

C35_BufferNeverExceedsStripe == []BufferWithinStripe /\ [][SuccessfulFlushEmptiesBuffer]_vars

\* C36: once finish_inserting has returned (write_footer has run), no stripe is
\* appended and no directory entry is added: in every later state the stripe
\* directory is as long as it was and the footer signature is the last bytes
\* of the backend.
FooterEndsBackend ==
    /\ Len(backend.bytes) >= Len(SIGNATURE)
    /\ SubSeq(backend.bytes, Len(backend.bytes) - Len(SIGNATURE) + 1, Len(backend.bytes)) = SIGNATURE

\* write_footer has run: finish_inserting has returned in this session or in
\* an earlier one
FooterHasRun == pc = "finished" \/ reopened > 0

NoStripeAfterFooter == FooterHasRun => Len(storage'.stripes) = Len(storage.stripes)

C36_NothingAfterFooter ==
    [](FooterHasRun => FooterEndsBackend) /\ [][NoStripeAfterFooter]_vars

\* C37: no Inserter asks for the write lock of the Storage while it holds a
\* read guard (the guard of enqueue_row's arity check is gone before flush),
\* and no reachable state is a deadlock: a holder of a guard is at a place
\* where its next step gives the guard back and asks for no lock, so a handle
\* that waits for the write lock can take it or some holder can move.
HoldsReadGuard(i) == i \in readers

WantsWriteLock(i) == inserters[i].state = "waiting"

\* the holder's next step is there to be taken (the writer's is the rest of
\* flush, which has no condition but the guard it holds)
CanRelease(i) ==
    \/ inserters[i].state = "creating" /\ ENABLED CreateInserterDone(i)
    \/ inserters[i].state = "reading"
          /\ ENABLED (\E row \in RowsFor(num_columns(storage)) : EnqueueRowChecked(i, row))
    \/ inserters[i].state = "writing" /\ lock.writer = i

LockHoldersCanMove ==
    pc = "inserting"
    => /\ \A i \in Inserters :
             /\ (WantsWriteLock(i) \/ lock.writer = i) => ~HoldsReadGuard(i)
             /\ (HoldsReadGuard(i) \/ lock.writer = i) => CanRelease(i)
             /\ WantsWriteLock(i) =>
                   \/ ENABLED WriteLock(i)
                   \/ \E j \in Inserters \ {i} :
                         (HoldsReadGuard(j) \/ lock.writer = j) /\ CanRelease(j)
       /\ (lock.writer # 0 => readers = {})

\* the step a holder takes gives its guard back and takes no other
HolderStepReleases ==
    \A i \in Inserters :
        /\ (HoldsReadGuard(i) /\ inserters'[i] # inserters[i])
              => i \notin readers' /\ lock' = lock
        /\ (lock.writer = i /\ inserters'[i] # inserters[i])
              => lock'.writer = 0 /\ readers' = readers

C37_NoWriteRequestUnderReadGuard == []LockHoldersCanMove /\ [][HolderStepReleases]_vars

\* one handle, its stripe full, waits for the write lock while the other
\* holds the read guard of its arity check
C37_Witness ==
    /\ pc = "inserting"
    /\ num_columns(storage) = 1
    /\ \E i \in Inserters : \E j \in Inserters \ {i} :
          /\ WantsWriteLock(i)
          /\ inserters[i].cause = "enqueue"
          /\ HoldsReadGuard(j)
          /\ inserters[j].state = "reading"

\* C38: under a fair lock and a backend whose writes return, a flush that has
\* started (the handle asks for the write lock) completes, the write lock that
\* was taken is released, the drop of an Inserter that has to flush finishes,
\* and finish_inserting can be called once every Inserter is dropped.
FlushCompletes ==
    \A i \in Inserters :
        /\ (inserters[i].state = "waiting") ~> (inserters[i].state \notin {"waiting", "writing"})
        /\ (lock.writer = i) ~> (lock.writer # i)
        /\ (inserters[i].state = "waiting" /\ inserters[i].cause = "drop")
              ~> (inserters[i].state = "dropped")

FinishPossibleOnceDropped ==
    (pc = "inserting" /\ \A i \in Inserters : ~Alive(i)) => ENABLED FinishInserting

C38_FlushTerminates == FlushCompletes /\ []FinishPossibleOnceDropped

\* both handles have been through a flush and are dropped, the lock is free
C38_Witness ==
    /\ pc = "inserting"
    /\ \A i \in Inserters : inserters[i].state = "dropped" /\ pushed[i] >= 1
    /\ Len(lock_order) >= 2
    /\ lock.writer = 0
    /\ readers = {}

\* C39: the absolute_offset values of the stripe directory are strictly
\* increasing in directory order, and each is the position the backend had
\* when its stripe's header was about to be written: the step that records an
\* entry leaves the bytes before that position alone and the header begins
\* right there.
OffsetsStrictlyIncrease ==
    \A j \in 1..Len(storage.stripes) : \A k \in 1..Len(storage.stripes) :
        j < k => storage.stripes[j].absolute_offset < storage.stripes[k].absolute_offset

OffsetIsHeaderPosition ==
    Len(storage'.stripes) # Len(storage.stripes) =>
        LET n == Len(storage.stripes)
            entry == storage'.stripes[n + 1]
            off == entry.absolute_offset
        IN /\ Len(storage'.stripes) = n + 1
           /\ SubSeq(storage'.stripes, 1, n) = storage.stripes
           /\ off = backend_current_offset(backend)
           /\ SubSeq(backend'.bytes, 1, off) = SubSeq(backend.bytes, 1, off)
           /\ Len(backend'.bytes) >= off + 3
           /\ backend'.bytes[off + 1] = entry.num_rows
           /\ backend'.bytes[off + 3] = num_columns(storage)
           /\ backend_current_offset(backend') > off

C39_OffsetsAreHeaderPositions == []OffsetsStrictlyIncrease /\ [][OffsetIsHeaderPosition]_vars

\* two entries, the second behind the bytes a failed flush has left
C39_Witness ==
    /\ Len(storage.stripes) = 2
    /\ io_failures = 1
    /\ storage.stripes[1].absolute_offset = 0
    /\ storage.stripes[2].absolute_offset > StripeEnd(storage.stripes[1].absolute_offset)

\* C40: in the TableWriter the assertion nulls.len() == values.len() of
\* generate_chunk holds every time flush_block generates chunks, whatever rows
\* were appended, rows with Null values included: no append_row that has fed
\* the generators and no finalize ends in the panic of that assertion.
FlushBlockAssertionFails ==
    /\ table_writer.state = "open"
    /\ table_writer'.state = "panicked"
    /\ \/ table_writer'.num_rows = table_writer.num_rows + 1
       \/ last'.op = "finalize"
    /\ \E c \in 1..Len(table_writer'.column_generators) :
          generate_chunk_panics(table_writer'.column_generators[c])

C40_ChunkAssertionHolds == [][~FlushBlockAssertionFails]_vars

====
